---- MODULE Spec2Model ----
(***************************************************************************)
(* A model of the LEXIS frontend: the zustand application store            *)
(* (src/src/store/useAppStore.ts), the SSE chat consumer                   *)
(* (ApiService.streamChatWithDocuments, src/unnamed/part_000), the         *)
(* session/auth state with its authenticated request helper and its        *)
(* session restore (src/src/components/AuthProvider.tsx), the file picker  *)
(* (FileUpload, src/unnamed/part_007), the chat screen                     *)
(* (src/src/app/page.tsx, src/src/components/ChatInterface.tsx) and the    *)
(* upload of a batch of documents with its progress panel                  *)
(* (page.tsx, ApiService.uploadDocuments, UploadProgress).                 *)
(*                                                                         *)
(* Each part has a specification of its own (SpecStore, SpecStream,        *)
(* SpecAuth, SpecRestore, SpecSession, SpecOps, SpecForced, SpecPicker,    *)
(* SpecChat, SpecUpload, SpecUploadLive) over the one set of variables; a  *)
(* specification leaves the variables of the parts it does not run at      *)
(* their initial values.                                                   *)
(***************************************************************************)
EXTENDS Naturals, Sequences, FiniteSets

VARIABLES
    \* ---- application store (useAppStore.ts)
    cases,              \* Case[]: the case list, a sequence of case ids
    currentCase,        \* Case | null
    currentThread,      \* ChatThread | null
    chatMessages,       \* ChatMessage[]: the chat transcript
    streamingContent,   \* string: the streaming buffer, a sequence of text pieces
    selectedCitation,   \* Citation | null
    isTyping,           \* boolean
    lastOp,             \* history: the store action applied last, its argument, and (pre)
                        \* whether the transcript was non-empty before setCurrentCase,
                        \* whether the removed case was the current one before removeCase
    \* ---- streaming chat consumer (part_000, streamChatWithDocuments)
    secureApiRequest,   \* ApiService.secureApiRequest: null until AuthProvider registers it
    fragments,          \* the byte fragments the transport will deliver, in order
    lineKinds,          \* the kinds of the lines the server wrote (what fragments spell)
    spc,                \* where the call of streamChatWithDocuments is
    readIdx,            \* number of fragments the reader has handed over
    fault,              \* history: the transport failure injected, if any
    calls,              \* history: reads requested and callbacks invoked, in order
    \* ---- session/auth state (AuthProvider.tsx)
    accessToken,        \* React state: the in-memory token
    stored,             \* sessionStorage['access_token']
    user,               \* React state
    isAuthenticated,    \* React state
    authLoading,        \* React state isLoading of the provider
    ctxToken,           \* accessToken as captured by the closures of the last render
    regToken,           \* accessToken as captured by the apiRequest registered with apiService
    tasks,              \* the asynchronous calls (apiRequest, login, logout), one record each
    timers,             \* pending setTimeout(router.push('/')) callbacks
    route,              \* the route the router was last pushed to
    logoutPosts,        \* history: POST /api/auth/logout requests sent
    tokenClears,        \* history: removeToken() calls
    loginNavs,          \* history: router.push('/login') calls
    \* ---- session restore (AuthProvider.tsx, initAuth and verifyToken)
    initPc,             \* where the mount effect's initAuth is
    verifyTok,          \* the token verifyToken was called with
    verifyResp,         \* history: what the verification request came to
    verifyRet,          \* what verifyToken returned
    \* ---- file picker (part_007, the FileUpload component)
    selectedFiles,      \* React state: the files selected for the next upload
    renderedFiles,      \* selectedFiles as captured by the handlers of the last render
    errors,             \* React state: the messages of the error list
    isUploading,        \* prop: the page is uploading a batch
    uploadCalls,        \* history: calls of the onUpload prop
    lastDrop,           \* history: the picker handler run last, the files dropped, and the
                        \* selection and the number of onUpload calls before it
    \* ---- chat screen (page.tsx DashboardContent, ChatInterface.tsx)
    activeTab,          \* React state of the page: 'documents' | 'chat'
    chatIsLoading,      \* React state isLoading of the mounted ChatInterface
    input,              \* React state input of the mounted ChatInterface: whether it holds text
    sends,              \* the calls of handleSendMessage that passed its guard, one record each
                        \* (live: the ChatInterface instance that sent is still mounted)
    loads,              \* the calls of loadCaseDetails, one record each
    chatLog,            \* history: what the sends did, in order
    historyOf,          \* history: the case whose chat history the transcript was last set to
    \* ---- upload batch (page.tsx handleFileUploadProcess, part_000 uploadDocuments)
    upPc,               \* where the call of handleFileUploadProcess is
    upCase,             \* its caseId
    upFiles,            \* its files, a sequence of file names
    upResp,             \* history: what the upload request came to
    fired,              \* number of progress timers of this upload that have fired
    staleFired,         \* number of progress timers of the upload before it that have fired
    showUploadProgress, \* React state of the page
    uploadProgress,     \* React state of the page
    processingFiles,    \* React state of the page
    completedFiles,     \* React state of the page
    failedFiles,        \* React state of the page
    documents,          \* React state of the page: the names of the documents listed
    lastDelivered,      \* history: the value this upload's onProgress was last called with
    failuresReported,   \* history: the count the failure toast of this upload reported
    reloads             \* history: calls of loadCaseDetails made by this upload

storeVars == <<cases, currentCase, currentThread, chatMessages, streamingContent,
               selectedCitation, isTyping, lastOp>>
streamVars == <<secureApiRequest, fragments, lineKinds, spc, readIdx, fault, calls>>
authVars == <<accessToken, stored, user, isAuthenticated, authLoading, ctxToken,
              regToken, tasks, timers, route, logoutPosts, tokenClears, loginNavs>>
restoreVars == <<initPc, verifyTok, verifyResp, verifyRet>>
pickerVars == <<selectedFiles, renderedFiles, errors, isUploading, uploadCalls, lastDrop>>
chatVars == <<activeTab, chatIsLoading, input, sends, loads, chatLog, historyOf>>
uploadVars == <<upPc, upCase, upFiles, upResp, fired, staleFired, showUploadProgress,
                uploadProgress, processingFiles, completedFiles, failedFiles, documents,
                lastDelivered, failuresReported, reloads>>
vars == <<storeVars, streamVars, authVars, restoreVars, pickerVars, chatVars, uploadVars>>

\* JavaScript's null (and an absent value), as a string so that it compares with ids.
Null == "null"

(***************************************************************************)
(* Bounds of the model.                                                    *)
(***************************************************************************)
MaxCases == 2      \* longest case list
MaxMsgs == 2       \* longest chat transcript
MaxStream == 2     \* most pieces in the streaming buffer
MaxLines == 3      \* most lines in a stream
MaxCuts == 1       \* most places the transport cuts a stream (MaxCuts + 1 fragments)
MaxTasks == 2      \* most asynchronous auth calls in one run
maxFiles == 1      \* config.maxFilesPerUpload, as set by NEXT_PUBLIC_MAX_FILES_PER_UPLOAD
MaxDrop == 2       \* most files in one drop
MaxSelected == 2   \* most files the selection is let grow to
MaxUploads == 2    \* most uploads started from the picker in one run
MaxSends == 2      \* most chat messages sent in one run
MaxLoads == 2      \* most times the details of a case are loaded in one run
MaxBatch == 2      \* most files in one upload batch

(***************************************************************************)
(* The initial values of the parts.                                        *)
(***************************************************************************)
StoreInit ==
    /\ cases = <<>>
    /\ currentCase = Null
    /\ currentThread = Null
    /\ chatMessages = <<>>
    /\ streamingContent = <<>>
    /\ selectedCitation = Null
    /\ isTyping = FALSE
    /\ lastOp = [op |-> "create", arg |-> Null, pre |-> FALSE]

StreamIdle ==
    /\ secureApiRequest = Null
    /\ fragments = <<>>
    /\ lineKinds = <<>>
    /\ spc = "idle"
    /\ readIdx = 0
    /\ fault = Null
    /\ calls = <<>>

AuthIdle ==
    /\ accessToken = Null
    /\ stored = Null
    /\ user = Null
    /\ isAuthenticated = FALSE
    /\ authLoading = TRUE
    /\ ctxToken = Null
    /\ regToken = Null
    /\ tasks = <<>>
    /\ timers = 0
    /\ route = "/"
    /\ logoutPosts = 0
    /\ tokenClears = 0
    /\ loginNavs = 0

RestoreIdle ==
    /\ initPc = "mount"
    /\ verifyTok = Null
    /\ verifyResp = [kind |-> "none", ok |-> FALSE, valid |-> FALSE, user |-> Null]
    /\ verifyRet = Null

PickerIdle ==
    /\ selectedFiles = <<>>
    /\ renderedFiles = <<>>
    /\ errors = <<>>
    /\ isUploading = FALSE
    /\ uploadCalls = 0
    /\ lastDrop = [op |-> "mount", files |-> <<>>, pre |-> <<>>, calls |-> 0]

ChatIdle ==
    /\ activeTab = "documents"
    /\ chatIsLoading = FALSE
    /\ input = FALSE
    /\ sends = <<>>
    /\ loads = <<>>
    /\ chatLog = <<>>
    /\ historyOf = Null

\* const steps = [5, 15, 30, 45, 60, 75, 85, 95]
steps == <<5, 15, 30, 45, 60, 75, 85, 95>>

NoUploadResp == [kind |-> "none", success |-> FALSE, outcomes |-> <<>>]

UploadIdle ==
    /\ upPc = "idle"
    /\ upCase = Null
    /\ upFiles = <<>>
    /\ upResp = NoUploadResp
    /\ fired = Len(steps)
    /\ staleFired = Len(steps)
    /\ showUploadProgress = FALSE
    /\ uploadProgress = 0
    /\ processingFiles = <<>>
    /\ completedFiles = <<>>
    /\ failedFiles = <<>>
    /\ documents = {}
    /\ lastDelivered = 0
    /\ failuresReported = 0
    /\ reloads = 0

(***************************************************************************)
(* The application store.  A Case is modelled by its id, a ChatMessage by  *)
(* its role, a string by the sequence of pieces appended to it.            *)
(***************************************************************************)
CaseIds == {"c1", "c2"}
Threads == {"th1"}
Citations == {"cit1"}
Messages == {"user", "assistant"}
Pieces == {"x"}

SeqsUpTo(S, n) == UNION {[1..k -> S] : k \in 0..n}

\* A store action leaves the other parts alone.
StoreOnly == UNCHANGED <<streamVars, authVars, restoreVars, pickerVars, chatVars, uploadVars>>

\* Array.prototype.filter(c => c.id !== caseId)
WithoutCase(cs, caseId) == SelectSeq(cs, LAMBDA c : c # caseId)

\* state.currentCase?.id === caseId
CurrentCaseIs(caseId) == currentCase # Null /\ currentCase = caseId

\* setCurrentCase as it would be without the reset of the selected citation.
setCurrentCase_keepCitation(caseItem) ==
    /\ currentCase' = caseItem
    /\ currentThread' = Null
    /\ chatMessages' = <<>>
    /\ streamingContent' = <<>>
    /\ StoreOnly
    /\ lastOp' = [op |-> "setCurrentCase", arg |-> caseItem,
                 pre |-> chatMessages # <<>>]
    /\ UNCHANGED <<cases, selectedCitation, isTyping>>

setCurrentCase(caseItem) ==
    /\ currentCase' = caseItem
    /\ currentThread' = Null
    /\ chatMessages' = <<>>
    /\ streamingContent' = <<>>
    /\ selectedCitation' = Null
    /\ StoreOnly
    /\ lastOp' = [op |-> "setCurrentCase", arg |-> caseItem,
                 pre |-> chatMessages # <<>>]
    /\ UNCHANGED <<cases, isTyping>>

setCurrentThread(thread) ==
    /\ currentThread' = thread
    /\ chatMessages' = <<>>
    /\ streamingContent' = <<>>
    /\ selectedCitation' = Null
    /\ StoreOnly
    /\ lastOp' = [op |-> "setCurrentThread", arg |-> thread, pre |-> FALSE]
    /\ UNCHANGED <<cases, currentCase, isTyping>>

setCases(cs) ==
    /\ cases' = cs
    /\ StoreOnly
    /\ lastOp' = [op |-> "setCases", arg |-> Null, pre |-> FALSE]
    /\ UNCHANGED <<currentCase, currentThread, chatMessages, streamingContent,
                   selectedCitation, isTyping>>

addCase(caseItem) ==
    /\ Len(cases) < MaxCases
    /\ cases' = <<caseItem>> \o cases
    /\ StoreOnly
    /\ lastOp' = [op |-> "addCase", arg |-> caseItem, pre |-> FALSE]
    /\ UNCHANGED <<currentCase, currentThread, chatMessages, streamingContent,
                   selectedCitation, isTyping>>

\* removeCase as it would be if it cleared the transcript whatever the case removed.
removeCase_alwaysClearChat(caseId) ==
    /\ cases' = WithoutCase(cases, caseId)
    /\ currentCase' = IF CurrentCaseIs(caseId) THEN Null ELSE currentCase
    /\ currentThread' = IF CurrentCaseIs(caseId) THEN Null ELSE currentThread
    /\ chatMessages' = <<>>
    /\ StoreOnly
    /\ lastOp' = [op |-> "removeCase", arg |-> caseId,
                 pre |-> CurrentCaseIs(caseId)]
    /\ UNCHANGED <<streamingContent, selectedCitation, isTyping>>

removeCase(caseId) ==
    /\ cases' = WithoutCase(cases, caseId)
    /\ currentCase' = IF CurrentCaseIs(caseId) THEN Null ELSE currentCase
    /\ currentThread' = IF CurrentCaseIs(caseId) THEN Null ELSE currentThread
    /\ chatMessages' = IF CurrentCaseIs(caseId) THEN <<>> ELSE chatMessages
    /\ StoreOnly
    /\ lastOp' = [op |-> "removeCase", arg |-> caseId,
                 pre |-> CurrentCaseIs(caseId)]
    /\ UNCHANGED <<streamingContent, selectedCitation, isTyping>>

setChatMessages(messages) ==
    /\ chatMessages' = messages
    /\ StoreOnly
    /\ lastOp' = [op |-> "setChatMessages", arg |-> Null, pre |-> FALSE]
    /\ UNCHANGED <<cases, currentCase, currentThread, streamingContent,
                   selectedCitation, isTyping>>

addChatMessage(message) ==
    /\ Len(chatMessages) < MaxMsgs
    /\ chatMessages' = Append(chatMessages, message)
    /\ StoreOnly
    /\ lastOp' = [op |-> "addChatMessage", arg |-> message, pre |-> FALSE]
    /\ UNCHANGED <<cases, currentCase, currentThread, streamingContent,
                   selectedCitation, isTyping>>

clearChatMessages ==
    /\ chatMessages' = <<>>
    /\ StoreOnly
    /\ lastOp' = [op |-> "clearChatMessages", arg |-> Null, pre |-> FALSE]
    /\ UNCHANGED <<cases, currentCase, currentThread, streamingContent,
                   selectedCitation, isTyping>>

setSelectedCitation(citation) ==
    /\ selectedCitation' = citation
    /\ StoreOnly
    /\ lastOp' = [op |-> "setSelectedCitation", arg |-> citation, pre |-> FALSE]
    /\ UNCHANGED <<cases, currentCase, currentThread, chatMessages,
                   streamingContent, isTyping>>

setIsTyping(typing) ==
    /\ isTyping' = typing
    /\ StoreOnly
    /\ lastOp' = [op |-> "setIsTyping", arg |-> Null, pre |-> FALSE]
    /\ UNCHANGED <<cases, currentCase, currentThread, chatMessages,
                   streamingContent, selectedCitation>>

setStreamingContent(content) ==
    /\ streamingContent' = content
    /\ StoreOnly
    /\ lastOp' = [op |-> "setStreamingContent", arg |-> Null, pre |-> FALSE]
    /\ UNCHANGED <<cases, currentCase, currentThread, chatMessages,
                   selectedCitation, isTyping>>

appendStreamingContent(content) ==
    /\ Len(streamingContent) + Len(content) <= MaxStream
    /\ streamingContent' = streamingContent \o content
    /\ StoreOnly
    /\ lastOp' = [op |-> "appendStreamingContent", arg |-> Null, pre |-> FALSE]
    /\ UNCHANGED <<cases, currentCase, currentThread, chatMessages,
                   selectedCitation, isTyping>>

clearStreamingContent ==
    /\ streamingContent' = <<>>
    /\ StoreOnly
    /\ lastOp' = [op |-> "clearStreamingContent", arg |-> Null, pre |-> FALSE]
    /\ UNCHANGED <<cases, currentCase, currentThread, chatMessages,
                   selectedCitation, isTyping>>

NextStore ==
    \/ \E c \in CaseIds \cup {Null} : setCurrentCase(c)
    \/ \E t \in Threads \cup {Null} : setCurrentThread(t)
    \/ \E cs \in SeqsUpTo(CaseIds, MaxCases) : setCases(cs)
    \/ \E c \in CaseIds : addCase(c)
    \/ \E c \in CaseIds : removeCase(c)
    \/ \E ms \in SeqsUpTo(Messages, MaxMsgs) : setChatMessages(ms)
    \/ \E m \in Messages : addChatMessage(m)
    \/ clearChatMessages
    \/ \E ci \in Citations \cup {Null} : setSelectedCitation(ci)
    \/ \E b \in BOOLEAN : setIsTyping(b)
    \/ \E s \in SeqsUpTo(Pieces, MaxStream) : setStreamingContent(s)
    \/ \E s \in SeqsUpTo(Pieces, 1) : appendStreamingContent(s)
    \/ clearStreamingContent

InitStore ==
    StoreInit /\ StreamIdle /\ AuthIdle /\ RestoreIdle /\ PickerIdle /\ ChatIdle /\ UploadIdle
SpecStore == InitStore /\ [][NextStore]_vars

(***************************************************************************)
(* The streaming chat consumer, ApiService.streamChatWithDocuments.        *)
(*                                                                         *)
(* Text is a sequence of symbols.  "D" stands for the six characters       *)
(* `data: `; "c", "d" and "e" stand for the JSON text of an event of type  *)
(* content, done and error up to its closing brace, which is the symbol    *)
(* "}" (so that a cut can fall inside an event); "x" is text that is not   *)
(* JSON, " " is white space, "#" is any other text and "\n" is the         *)
(* newline.  The only event types the code tells apart are done and error; *)
(* content stands for every other type.                                    *)
(***************************************************************************)
LineKinds == {"content", "done", "error", "malformed", "blank", "other"}

\* What the server writes for a line of each kind, without its newline.
LineText(kind) ==
    CASE kind = "content"   -> <<"D", "c", "}">>
      [] kind = "done"      -> <<"D", "d", "}">>
      [] kind = "error"     -> <<"D", "e", "}">>
      [] kind = "malformed" -> <<"D", "x", "}">>
      [] kind = "blank"     -> <<"D", " ">>
      [] OTHER              -> <<"#">>

\* The stream text: every line followed by a newline.
RECURSIVE StreamText(_)
StreamText(kinds) ==
    IF kinds = <<>> THEN <<>>
    ELSE LineText(Head(kinds)) \o <<"\n">> \o StreamText(Tail(kinds))

\* The places a transport may cut a text of n symbols: at most MaxCuts of them,
\* as an increasing sequence of positions 1..n-1.
CutSeqs(n) ==
    {c \in UNION {[1..k -> 1..(n - 1)] : k \in 0..MaxCuts} :
        \A i \in 1..(Len(c) - 1) : c[i] < c[i + 1]}

\* The fragments of text cut after the positions c.
FragmentsOf(text, c) ==
    IF text = <<>> THEN <<>>
    ELSE [i \in 1..(Len(c) + 1) |->
            SubSeq(text,
                   IF i = 1 THEN 1 ELSE c[i - 1] + 1,
                   IF i = Len(c) + 1 THEN Len(text) ELSE c[i])]

\* The entries of the history `calls`.
ReadCall == [cb |-> "read", type |-> Null]
OnChunk(type) == [cb |-> "onChunk", type |-> type]
OnComplete == [cb |-> "onComplete", type |-> Null]
OnError(message) == [cb |-> "onError", type |-> message]   \* type: the message passed

\* chunk.split('\n')
RECURSIVE Split(_)
Split(chunk) ==
    IF \A i \in 1..Len(chunk) : chunk[i] # "\n" THEN <<chunk>>
    ELSE LET nl == CHOOSE i \in 1..Len(chunk) :
                       /\ chunk[i] = "\n"
                       /\ \A j \in 1..(i - 1) : chunk[j] # "\n"
         IN  <<SubSeq(chunk, 1, nl - 1)>> \o Split(SubSeq(chunk, nl + 1, Len(chunk)))

\* line.startsWith('data: ')
StartsWithData(line) == Len(line) >= 1 /\ line[1] = "D"

\* line.slice(6)
Slice6(line) == Tail(line)

\* data.trim() === ''
TrimIsEmpty(data) == \A i \in 1..Len(data) : data[i] = " "

\* data.trim(), which JSON.parse does to its text
RECURSIVE Trim(_)
Trim(data) ==
    IF data = <<>> THEN <<>>
    ELSE IF Head(data) = " " THEN Trim(Tail(data))
    ELSE IF data[Len(data)] = " " THEN Trim(SubSeq(data, 1, Len(data) - 1))
    ELSE data

\* JSON.parse(data).type, or "SyntaxError" when JSON.parse throws.
JsonParse(data) ==
    LET t == Trim(data)
    IN  IF Len(t) = 2 /\ t[2] = "}" /\ t[1] \in {"c", "d", "e"}
        THEN CASE t[1] = "c" -> "content"
               [] t[1] = "d" -> "done"
               [] t[1] = "e" -> "error"
        ELSE "SyntaxError"

\* The terminal test as it would be if it forgot the error event.
IsTerminal_doneOnly(type) == type = "done"

\* parsedData.type === 'done' || parsedData.type === 'error'
IsTerminal(type) == type = "done" \/ type = "error"

\* The loop as it would be if a terminal event went to onComplete only.
RECURSIVE ProcessLines_noChunkForTerminal(_)
ProcessLines_noChunkForTerminal(lines) ==
    IF lines = <<>> THEN [out |-> <<>>, returned |-> FALSE]
    ELSE LET line == Head(lines)
             rest == ProcessLines_noChunkForTerminal(Tail(lines))
             data == Slice6(line)
             type == JsonParse(data)
         IN  IF ~StartsWithData(line) THEN rest
             ELSE IF TrimIsEmpty(data) THEN rest
             ELSE IF type = "SyntaxError" THEN rest
             ELSE IF IsTerminal(type)
                  THEN [out |-> <<OnComplete>>, returned |-> TRUE]
             ELSE [out |-> <<OnChunk(type)>> \o rest.out, returned |-> rest.returned]

\* The loop as it would be without the try around JSON.parse: the SyntaxError
\* reaches the outer catch, which calls onError and ends the call.
RECURSIVE ProcessLines_parseErrorEscapes(_)
ProcessLines_parseErrorEscapes(lines) ==
    IF lines = <<>> THEN [out |-> <<>>, returned |-> FALSE]
    ELSE LET line == Head(lines)
             rest == ProcessLines_parseErrorEscapes(Tail(lines))
             data == Slice6(line)
             type == JsonParse(data)
         IN  IF ~StartsWithData(line) THEN rest
             ELSE IF TrimIsEmpty(data) THEN rest
             ELSE IF type = "SyntaxError"
                  THEN [out |-> <<OnError("SyntaxError")>>, returned |-> TRUE]
             ELSE IF IsTerminal(type)
                  THEN [out |-> <<OnChunk(type), OnComplete>>, returned |-> TRUE]
             ELSE [out |-> <<OnChunk(type)>> \o rest.out, returned |-> rest.returned]

\* The for loop over the lines of one fragment: the callbacks it invokes, and
\* whether it left streamChatWithDocuments by its return.
RECURSIVE ProcessLines(_)
ProcessLines(lines) ==
    IF lines = <<>> THEN [out |-> <<>>, returned |-> FALSE]
    ELSE LET line == Head(lines)
             rest == ProcessLines(Tail(lines))
             data == Slice6(line)
             type == JsonParse(data)
         IN  IF ~StartsWithData(line) THEN rest
             ELSE IF TrimIsEmpty(data) THEN rest
             ELSE IF type = "SyntaxError" THEN rest
             ELSE IF IsTerminal(type)
                  THEN [out |-> <<OnChunk(type), OnComplete>>, returned |-> TRUE]
             ELSE [out |-> <<OnChunk(type)>> \o rest.out, returned |-> rest.returned]

\* A step of the consumer leaves the other parts alone.
StreamOnly == UNCHANGED <<storeVars, authVars, restoreVars, pickerVars, chatVars, uploadVars>>

\* error.message of what the catch block catches: the error thrown by the
\* request, the two errors thrown for a non-OK status and a missing reader, the
\* error a read rejected with.
ErrorMessage(outcome) ==
    CASE outcome = "throws"      -> "message of the request's error"
      [] outcome = "notOk"       -> "HTTP error! status: n"
      [] outcome = "noBody"      -> "No reader available"
      [] outcome = "readRejects" -> "message of the read's error"

\* The call: it throws at once when no request function is registered, and
\* otherwise awaits the request.
CallStream ==
    /\ spc = "idle"
    /\ spc' = IF secureApiRequest = Null THEN "rejected" ELSE "requesting"
    /\ StreamOnly
    /\ UNCHANGED <<secureApiRequest, fragments, lineKinds, readIdx, fault, calls>>

\* The request settles.  It throws, answers with a non-OK status or has no body:
\* the catch reports it by onError.  Otherwise the first read is requested.
RequestSettles(outcome) ==
    /\ spc = "requesting"
    /\ IF outcome = "ok"
       THEN /\ calls' = Append(calls, ReadCall)
            /\ spc' = "reading"
            /\ fault' = fault
       ELSE /\ calls' = Append(calls, OnError(ErrorMessage(outcome)))
            /\ spc' = "resolved"
            /\ fault' = outcome
    /\ StreamOnly
    /\ UNCHANGED <<secureApiRequest, fragments, lineKinds, readIdx>>

\* ReadRejects as it would be without the catch around the loop: the rejection
\* leaves streamChatWithDocuments, whose promise rejects, and no callback runs.
ReadRejects_rethrows ==
    /\ spc = "reading"
    /\ calls' = calls
    /\ spc' = "rejected"
    /\ fault' = "readRejects"
    /\ StreamOnly
    /\ UNCHANGED <<secureApiRequest, fragments, lineKinds, readIdx>>

\* reader.read() rejects: the catch reports it by onError.
ReadRejects ==
    /\ spc = "reading"
    /\ calls' = Append(calls, OnError(ErrorMessage("readRejects")))
    /\ spc' = "resolved"
    /\ fault' = "readRejects"
    /\ StreamOnly
    /\ UNCHANGED <<secureApiRequest, fragments, lineKinds, readIdx>>

\* ReadDone as it would be if the end of the stream only left the loop.
ReadDone_noComplete ==
    /\ spc = "reading"
    /\ readIdx = Len(fragments)
    /\ calls' = calls
    /\ spc' = "resolved"
    /\ StreamOnly
    /\ UNCHANGED <<secureApiRequest, fragments, lineKinds, readIdx, fault>>

\* reader.read() resolves with done: onComplete, and the loop is left.
ReadDone ==
    /\ spc = "reading"
    /\ readIdx = Len(fragments)
    /\ calls' = Append(calls, OnComplete)
    /\ spc' = "resolved"
    /\ StreamOnly
    /\ UNCHANGED <<secureApiRequest, fragments, lineKinds, readIdx, fault>>

\* reader.read() resolves with the next fragment: its lines are processed, and
\* unless a terminal event returned, the next read is requested.
ReadValue ==
    /\ spc = "reading"
    /\ readIdx < Len(fragments)
    /\ LET r == ProcessLines(Split(fragments[readIdx + 1]))
       IN  /\ calls' = calls \o r.out \o (IF r.returned THEN <<>> ELSE <<ReadCall>>)
           /\ spc' = IF r.returned THEN "resolved" ELSE "reading"
    /\ readIdx' = readIdx + 1
    /\ StreamOnly
    /\ UNCHANGED <<secureApiRequest, fragments, lineKinds, fault>>

InitStream ==
    /\ StoreInit
    /\ AuthIdle
    /\ RestoreIdle
    /\ PickerIdle
    /\ ChatIdle
    /\ UploadIdle
    /\ secureApiRequest \in {Null, "apiRequest"}
    /\ lineKinds \in SeqsUpTo(LineKinds, MaxLines)
    /\ \E c \in CutSeqs(Len(StreamText(lineKinds))) :
           fragments = FragmentsOf(StreamText(lineKinds), c)
    /\ spc = "idle"
    /\ readIdx = 0
    /\ fault = Null
    /\ calls = <<>>

NextStream ==
    \/ CallStream
    \/ \E o \in {"ok", "throws", "notOk", "noBody"} : RequestSettles(o)
    \/ ReadRejects
    \/ ReadDone
    \/ ReadValue

SpecStream == InitStream /\ [][NextStream]_vars

(***************************************************************************)
(* Session/auth state: AuthProvider's login and logout and its request     *)
(* helper apiRequest, which ApiService calls for every backend request.    *)
(*                                                                         *)
(* Every call is asynchronous and is a task: a record that moves from one  *)
(* await to the next, so that calls interleave as the event loop lets      *)
(* them.  A function of the provider reads accessToken from the closure of *)
(* the render that made it: ctxToken for the functions the context hands   *)
(* to the components, regToken for the apiRequest registered with          *)
(* ApiService by the effect on [accessToken].                              *)
(***************************************************************************)
Tokens == {"t1", "t2"}
Users == {"u1"}
Statuses == {200, 401, 500}

\* The paths requested, as sequences of characters.
UrlCases == <<"/", "a", "p", "i", "/", "c", "a", "s", "e", "s">>
UrlLogin == <<"/", "a", "p", "i", "/", "a", "u", "t", "h", "/", "l", "o", "g", "i", "n">>
UrlLogout == <<"/", "a", "p", "i", "/", "a", "u", "t", "h", "/", "l", "o", "g", "o", "u", "t">>
UrlLogins == <<"/", "a", "p", "i", "/", "l", "o", "g", "i", "n", "s">>
Urls == {UrlCases, UrlLogin, UrlLogout, UrlLogins}

\* String.prototype.includes
Includes(str, sub) ==
    \E i \in 0..(Len(str) - Len(sub)) : SubSeq(str, i + 1, i + Len(sub)) = sub

\* What the backend may answer to the login POST: the fetch rejects, the body
\* is not JSON, or a JSON body under an OK or a non-OK status, with an access
\* token and a user or with neither.
NoResp == [kind |-> "none", ok |-> FALSE, token |-> Null, user |-> Null]
LoginResponses ==
    {[kind |-> "reject", ok |-> FALSE, token |-> Null, user |-> Null],
     [kind |-> "badJson", ok |-> TRUE, token |-> Null, user |-> Null]}
    \cup [kind : {"json"}, ok : BOOLEAN, token : Tokens, user : Users]
    \cup [kind : {"json"}, ok : BOOLEAN, token : {Null}, user : {Null}]

\* A task that has just been called.
NewTask(kind, pc, url, tok, post) ==
    [kind |-> kind, pc |-> pc, url |-> url, tok |-> tok, auth |-> Null,
     contentType |-> Null, form |-> FALSE, status |-> 0,
     result |-> Null, resp |-> NoResp, post |-> post,
     inflight |-> {i \in 1..Len(tasks) : tasks[i].kind = "api" /\ tasks[i].pc = "fetch"}]

\* A step of the auth state leaves the other parts alone.
AuthOnly == UNCHANGED <<storeVars, streamVars, restoreVars, pickerVars, chatVars, uploadVars>>

\* accessToken || getStoredToken(), in a closure that captured tok
TokenOr(tok) == IF tok # Null THEN tok ELSE stored

\* storeToken as it would be without the write to sessionStorage.
storeToken_memoryOnly(token) ==
    /\ accessToken' = token
    /\ stored' = stored

storeToken(token) ==
    /\ accessToken' = token
    /\ stored' = token

removeToken ==
    /\ accessToken' = Null
    /\ stored' = Null
    /\ tokenClears' = tokenClears + 1

\* The finally block of logout.
LogoutFinally ==
    /\ removeToken
    /\ user' = Null
    /\ isAuthenticated' = FALSE
    /\ route' = "/login"
    /\ loginNavs' = loginNavs + 1

\* The provider renders again after a change of accessToken: the functions it
\* hands out close over the new value.
Render ==
    /\ ctxToken # accessToken
    /\ ctxToken' = accessToken
    /\ AuthOnly
    /\ UNCHANGED <<accessToken, stored, user, isAuthenticated, authLoading, regToken,
                   tasks, timers, route, logoutPosts, tokenClears, loginNavs>>

\* The effect on [accessToken] of the last render registers its apiRequest.
RegisterEffect ==
    /\ regToken # ctxToken
    /\ regToken' = ctxToken
    /\ AuthOnly
    /\ UNCHANGED <<accessToken, stored, user, isAuthenticated, authLoading, ctxToken,
                   tasks, timers, route, logoutPosts, tokenClears, loginNavs>>

\* The test as it would be without the exclusion of the login path.
Intercepts_noLoginExclusion(url, status) ==
    /\ status = 401
    /\ ~Includes(url, <<"/", "l", "o", "g", "o", "u", "t">>)

\* response.status === 401 && !url.includes('/logout') && !url.includes('/login')
Intercepts(url, status) ==
    /\ status = 401
    /\ ~Includes(url, <<"/", "l", "o", "g", "o", "u", "t">>)
    /\ ~Includes(url, <<"/", "l", "o", "g", "i", "n">>)

\* The options ApiService passes: no body (a GET or a DELETE), a JSON text, with
\* an Accept header for the chat stream, or the FormData of an upload.  No
\* caller passes a Content-Type or an Authorization header of its own.
NoOptions == [body |-> "none", accept |-> FALSE]
RequestOptions ==
    {NoOptions, [body |-> "json", accept |-> FALSE], [body |-> "json", accept |-> TRUE],
     [body |-> "formData", accept |-> FALSE]}

\* The headers apiRequest builds: Content-Type application/json and the headers
\* of the options, Authorization with a token, and the Content-Type deleted for
\* a FormData body.
Headers(options, token) ==
    [authorization |-> token,
     contentType |-> IF options.body = "formData" THEN Null ELSE "application/json",
     accept |-> options.accept]

\* ApiService calls the registered apiRequest: the request goes out, with an
\* Authorization header when the closure or the storage has a token, and the
\* call awaits the response.
ApiRequestStart(url, options) ==
    /\ Len(tasks) < MaxTasks
    /\ LET headers == Headers(options, TokenOr(regToken))
       IN  tasks' = Append(tasks, [NewTask("api", "fetch", url, regToken, "none")
                                      EXCEPT !.auth = headers.authorization,
                                             !.contentType = headers.contentType,
                                             !.form = options.body = "formData"])
    /\ AuthOnly
    /\ UNCHANGED <<accessToken, stored, user, isAuthenticated, authLoading, ctxToken,
                   regToken, timers, route, logoutPosts, tokenClears, loginNavs>>

\* The fetch of apiRequest rejects: so does apiRequest.
ApiFetchRejects(t) ==
    /\ tasks[t].kind = "api" /\ tasks[t].pc = "fetch"
    /\ tasks' = [tasks EXCEPT ![t].pc = "threw"]
    /\ AuthOnly
    /\ UNCHANGED <<accessToken, stored, user, isAuthenticated, authLoading, ctxToken,
                   regToken, timers, route, logoutPosts, tokenClears, loginNavs>>

\* The fetch of apiRequest resolves with a response of this status.  An
\* intercepted 401 calls logout, which sends its POST when it finds a token and
\* otherwise runs to its end, after which apiRequest returns the synthetic 401.
\* Any other response is returned as it is.
ApiFetchResolves(t, status) ==
    /\ tasks[t].kind = "api" /\ tasks[t].pc = "fetch"
    /\ IF Intercepts(tasks[t].url, status)
       THEN IF TokenOr(tasks[t].tok) # Null
            THEN /\ tasks' = [tasks EXCEPT ![t].pc = "logoutPost", ![t].status = status,
                                           ![t].post = "pending"]
                 /\ logoutPosts' = logoutPosts + 1
                 /\ UNCHANGED <<accessToken, stored, user, isAuthenticated, route,
                                tokenClears, loginNavs>>
            ELSE /\ tasks' = [tasks EXCEPT ![t].pc = "done", ![t].status = status,
                                           ![t].post = "skipped",
                                           ![t].result = "synthetic401"]
                 /\ LogoutFinally
                 /\ UNCHANGED logoutPosts
       ELSE /\ tasks' = [tasks EXCEPT ![t].pc = "done", ![t].status = status,
                                      ![t].result = "original"]
            /\ UNCHANGED <<accessToken, stored, user, isAuthenticated, route,
                           logoutPosts, tokenClears, loginNavs>>
    /\ AuthOnly
    /\ UNCHANGED <<authLoading, ctxToken, regToken, timers>>

\* A component calls logout: it sends its POST when it finds a token, and
\* otherwise runs to its end.
LogoutStart ==
    /\ Len(tasks) < MaxTasks
    /\ IF TokenOr(ctxToken) # Null
       THEN /\ tasks' = Append(tasks, NewTask("logout", "logoutPost", <<>>, ctxToken,
                                              "pending"))
            /\ logoutPosts' = logoutPosts + 1
            /\ UNCHANGED <<accessToken, stored, user, isAuthenticated, route,
                           tokenClears, loginNavs>>
       ELSE /\ tasks' = Append(tasks, [NewTask("logout", "done", <<>>, ctxToken,
                                               "skipped") EXCEPT !.result = "void"])
            /\ LogoutFinally
            /\ UNCHANGED logoutPosts
    /\ AuthOnly
    /\ UNCHANGED <<authLoading, ctxToken, regToken, timers>>

\* logout as it would be with its cleanup after the POST in the try block, not
\* in a finally: a rejected POST leaves the state as it is and logout throws.
LogoutPostSettles_noFinally(t, outcome) ==
    /\ tasks[t].pc = "logoutPost"
    /\ IF outcome = "reject"
       THEN /\ tasks' = [tasks EXCEPT ![t].pc = "threw", ![t].post = outcome]
            /\ UNCHANGED <<accessToken, stored, user, isAuthenticated, route,
                           tokenClears, loginNavs>>
       ELSE /\ tasks' = [tasks EXCEPT ![t].pc = "done", ![t].post = outcome,
                                      ![t].result = IF tasks[t].kind = "api"
                                                    THEN "synthetic401" ELSE "void"]
            /\ LogoutFinally
    /\ AuthOnly
    /\ UNCHANGED <<authLoading, ctxToken, regToken, timers, logoutPosts>>

\* logout as it would be if its POST went through apiRequest: an error status
\* in answer to it is intercepted and the logout called again.
LogoutPostSettles_intercepted(t, outcome) ==
    /\ tasks[t].pc = "logoutPost"
    /\ IF outcome = "httpError"
       THEN /\ tasks' = [tasks EXCEPT ![t].post = "pending"]
            /\ logoutPosts' = logoutPosts + 1
            /\ UNCHANGED <<accessToken, stored, user, isAuthenticated, route,
                           tokenClears, loginNavs>>
       ELSE /\ tasks' = [tasks EXCEPT ![t].pc = "done", ![t].post = outcome,
                                      ![t].result = IF tasks[t].kind = "api"
                                                    THEN "synthetic401" ELSE "void"]
            /\ LogoutFinally
            /\ UNCHANGED logoutPosts
    /\ AuthOnly
    /\ UNCHANGED <<authLoading, ctxToken, regToken, timers>>

\* The POST of a logout settles: it succeeded, answered with an error status,
\* or was rejected, which the catch swallows.  The finally block runs in each
\* case, and an apiRequest that called this logout returns the synthetic 401.
LogoutPostSettles(t, outcome) ==
    /\ tasks[t].pc = "logoutPost"
    /\ tasks' = [tasks EXCEPT ![t].pc = "done", ![t].post = outcome,
                              ![t].result = IF tasks[t].kind = "api"
                                            THEN "synthetic401" ELSE "void"]
    /\ LogoutFinally
    /\ AuthOnly
    /\ UNCHANGED <<authLoading, ctxToken, regToken, timers, logoutPosts>>

\* The test as it would be if login looked at the status only.
LoginSucceeds_okOnly(resp) == resp.kind = "json" /\ resp.ok

\* response.ok && data.access_token
LoginSucceeds(resp) == resp.kind = "json" /\ resp.ok /\ resp.token # Null

\* The login page calls login: setIsLoading(true), and the POST goes out.
LoginStart ==
    /\ Len(tasks) < MaxTasks
    /\ tasks' = Append(tasks, NewTask("login", "loginFetch", <<>>, ctxToken, "none"))
    /\ authLoading' = TRUE
    /\ AuthOnly
    /\ UNCHANGED <<accessToken, stored, user, isAuthenticated, ctxToken, regToken,
                   timers, route, logoutPosts, tokenClears, loginNavs>>

\* The POST of login settles and its body is read.  With an OK status and an
\* access token the token is stored, the user set, the navigation to the
\* dashboard scheduled; otherwise, and when the fetch or the parse threw, login
\* returns a failure.  The finally block resets isLoading.
LoginSettles(t, resp) ==
    /\ tasks[t].kind = "login" /\ tasks[t].pc = "loginFetch"
    /\ IF LoginSucceeds(resp)
       THEN /\ storeToken(resp.token)
            /\ user' = resp.user
            /\ isAuthenticated' = TRUE
            /\ timers' = timers + 1
            /\ tasks' = [tasks EXCEPT ![t].pc = "done", ![t].resp = resp,
                                      ![t].result = "success"]
       ELSE /\ tasks' = [tasks EXCEPT ![t].pc = "done", ![t].resp = resp,
                                      ![t].result = "failure"]
            /\ UNCHANGED <<accessToken, stored, user, isAuthenticated, timers>>
    /\ authLoading' = FALSE
    /\ AuthOnly
    /\ UNCHANGED <<ctxToken, regToken, route, logoutPosts, tokenClears, loginNavs>>

\* The timer of a successful login fires: router.push('/').
TimerFires ==
    /\ timers > 0
    /\ timers' = timers - 1
    /\ route' = "/"
    /\ AuthOnly
    /\ UNCHANGED <<accessToken, stored, user, isAuthenticated, authLoading, ctxToken,
                   regToken, tasks, logoutPosts, tokenClears, loginNavs>>

\* The provider has mounted: no token in memory, no user, isLoading true; the
\* tab's sessionStorage may hold a token of an earlier page load.
InitAuth ==
    /\ StoreInit
    /\ StreamIdle
    /\ RestoreIdle
    /\ PickerIdle
    /\ ChatIdle
    /\ UploadIdle
    /\ accessToken = Null
    /\ stored \in Tokens \cup {Null}
    /\ user = Null
    /\ isAuthenticated = FALSE
    /\ authLoading = TRUE
    /\ ctxToken = Null
    /\ regToken = Null
    /\ tasks = <<>>
    /\ timers = 0
    /\ route = "/"
    /\ logoutPosts = 0
    /\ tokenClears = 0
    /\ loginNavs = 0

NextAuth ==
    \/ Render
    \/ RegisterEffect
    \/ \E u \in Urls : ApiRequestStart(u, NoOptions)
    \/ \E t \in 1..Len(tasks) : ApiFetchRejects(t)
    \/ \E t \in 1..Len(tasks), s \in Statuses : ApiFetchResolves(t, s)
    \/ LogoutStart
    \/ \E t \in 1..Len(tasks), o \in {"ok", "httpError", "reject"} : LogoutPostSettles(t, o)
    \/ LoginStart
    \/ \E t \in 1..Len(tasks), r \in LoginResponses : LoginSettles(t, r)
    \/ TimerFires

SpecAuth == InitAuth /\ [][NextAuth]_vars

(***************************************************************************)
(* Session restore: the provider's mount effect runs initAuth, which       *)
(* verifies the token found in sessionStorage.  The login page and the     *)
(* logout buttons are live meanwhile, so the specification has the actions *)
(* of login and logout too.                                                *)
(***************************************************************************)

\* What the backend may answer to GET /api/auth/verify-token: the fetch
\* rejects, the body of an OK response is not JSON, or a JSON body under an OK
\* (reporting valid or not, with a user or without) or a non-OK status.
NoVerifyResp == [kind |-> "none", ok |-> FALSE, valid |-> FALSE, user |-> Null]
VerifyResponses ==
    {[kind |-> "reject", ok |-> FALSE, valid |-> FALSE, user |-> Null],
     [kind |-> "badJson", ok |-> TRUE, valid |-> FALSE, user |-> Null]}
    \cup [kind : {"json"}, ok : {TRUE}, valid : BOOLEAN, user : Users \cup {Null}]
    \cup [kind : {"json"}, ok : {FALSE}, valid : {TRUE}, user : Users]

\* The test as it would be if verifyToken trusted every OK response.
VerifySucceeds_okOnly(resp) == resp.kind = "json" /\ resp.ok

\* response.ok && data.valid && data.user
VerifySucceeds(resp) == resp.kind = "json" /\ resp.ok /\ resp.valid /\ resp.user # Null

\* A step of the session restore leaves the store, the stream and the picker alone.
RestoreOnly == UNCHANGED <<storeVars, streamVars, pickerVars, chatVars, uploadVars>>

\* The mount effect calls initAuth: setIsLoading(true); with a stored token
\* verifyToken is called with it and its request goes out, without one the
\* finally block resets isLoading at once.
InitAuthStart ==
    /\ initPc = "mount"
    /\ IF stored # Null
       THEN /\ initPc' = "verifyFetch"
            /\ verifyTok' = stored
            /\ authLoading' = TRUE
       ELSE /\ initPc' = "done"
            /\ verifyTok' = verifyTok
            /\ authLoading' = FALSE
    /\ UNCHANGED <<verifyResp, verifyRet>>
    /\ RestoreOnly
    /\ UNCHANGED <<accessToken, stored, user, isAuthenticated, ctxToken, regToken, tasks,
                   timers, route, logoutPosts, tokenClears, loginNavs>>

\* The verification request settles and, when OK, its body is read.  A valid
\* answer with a user sets the user and stores the token verifyToken was
\* called with; anything else, a thrown fetch or parse included, removes the
\* token and resets the user.  Back in initAuth the finally block resets
\* isLoading.
VerifySettles(resp) ==
    /\ initPc = "verifyFetch"
    /\ IF VerifySucceeds(resp)
       THEN /\ user' = resp.user
            /\ isAuthenticated' = TRUE
            /\ storeToken(verifyTok)
            /\ verifyRet' = "true"
            /\ UNCHANGED tokenClears
       ELSE /\ removeToken
            /\ user' = Null
            /\ isAuthenticated' = FALSE
            /\ verifyRet' = "false"
    /\ verifyResp' = resp
    /\ authLoading' = FALSE
    /\ initPc' = "done"
    /\ UNCHANGED verifyTok
    /\ RestoreOnly
    /\ UNCHANGED <<ctxToken, regToken, tasks, timers, route, logoutPosts, loginNavs>>

InitRestore == InitAuth

NextRestore ==
    \/ InitAuthStart
    \/ \E r \in VerifyResponses : VerifySettles(r)
    \/ Render
    \/ RegisterEffect
    \/ LogoutStart
    \/ \E t \in 1..Len(tasks), o \in {"ok", "httpError", "reject"} : LogoutPostSettles(t, o)
    \/ LoginStart
    \/ \E t \in 1..Len(tasks), r \in LoginResponses : LoginSettles(t, r)
    \/ TimerFires

SpecRestore == InitRestore /\ [][NextRestore]_vars

\* The restored session in use: the requests of the API service and logout,
\* after (or while) the mount effect restores the session.
NextSession ==
    \/ InitAuthStart
    \/ \E r \in VerifyResponses : VerifySettles(r)
    \/ Render
    \/ RegisterEffect
    \/ \E u \in Urls, o \in RequestOptions : ApiRequestStart(u, o)
    \/ \E t \in 1..Len(tasks) : ApiFetchRejects(t)
    \/ \E t \in 1..Len(tasks), st \in Statuses : ApiFetchResolves(t, st)
    \/ LogoutStart
    \/ \E t \in 1..Len(tasks), o \in {"ok", "httpError", "reject"} : LogoutPostSettles(t, o)

SpecSession == InitRestore /\ [][NextSession]_vars

\* A session in use: the mount effect has verified the stored token, the
\* provider has rendered and registered its apiRequest.
InitForced ==
    /\ StoreInit /\ StreamIdle /\ PickerIdle /\ ChatIdle /\ UploadIdle
    /\ \E tok \in Tokens, u \in Users :
           /\ accessToken = tok /\ stored = tok
           /\ ctxToken = tok /\ regToken = tok
           /\ user = u
           /\ verifyTok = tok
           /\ verifyResp = [kind |-> "json", ok |-> TRUE, valid |-> TRUE, user |-> u]
    /\ initPc = "done"
    /\ verifyRet = "true"
    /\ isAuthenticated = TRUE
    /\ authLoading = FALSE
    /\ tasks = <<>>
    /\ timers = 0
    /\ route = "/"
    /\ logoutPosts = 0
    /\ tokenClears = 0
    /\ loginNavs = 0

\* The requests of the API service and logout in that session, and, as a fetch
\* settles sooner or later, each logout POST awaited comes to settle.
NextForced ==
    \/ Render
    \/ RegisterEffect
    \/ \E u \in {UrlCases, UrlLogout} : ApiRequestStart(u, NoOptions)
    \/ \E t \in 1..Len(tasks) : ApiFetchRejects(t)
    \/ \E t \in 1..Len(tasks), st \in Statuses : ApiFetchResolves(t, st)
    \/ LogoutStart
    \/ \E t \in 1..Len(tasks), o \in {"ok", "httpError", "reject"} : LogoutPostSettles(t, o)

FairForced ==
    \A t \in 1..MaxTasks :
        WF_vars(/\ t <= Len(tasks)
                /\ \E o \in {"ok", "httpError", "reject"} : LogoutPostSettles(t, o))

SpecForced == InitForced /\ [][NextForced]_vars /\ FairForced

(***************************************************************************)
(* The four operations on the session together: the mount effect's         *)
(* verifyToken, login and register from the forms of the login and signup  *)
(* pages, and logout.  Both forms are children of AuthRedirect, which      *)
(* shows them only while the provider is neither loading nor               *)
(* authenticated.                                                          *)
(***************************************************************************)

\* AuthRedirect renders its children: !isLoading && !isAuthenticated
FormShown == ~authLoading /\ ~isAuthenticated

\* The login form is submitted.
LoginSubmit == FormShown /\ LoginStart

\* The signup form is submitted and calls register: setIsLoading(true), and
\* the POST goes out.
RegisterStart ==
    /\ FormShown
    /\ Len(tasks) < MaxTasks
    /\ tasks' = Append(tasks, NewTask("register", "registerFetch", <<>>, ctxToken, "none"))
    /\ authLoading' = TRUE
    /\ AuthOnly
    /\ UNCHANGED <<accessToken, stored, user, isAuthenticated, ctxToken, regToken,
                   timers, route, logoutPosts, tokenClears, loginNavs>>

\* response.ok && result.access_token
RegisterSucceeds(resp) == resp.kind = "json" /\ resp.ok /\ resp.token # Null

\* register as it would be if it set the flag and the user without storing the
\* token.
RegisterSettles_noStore(t, resp) ==
    /\ tasks[t].kind = "register" /\ tasks[t].pc = "registerFetch"
    /\ IF RegisterSucceeds(resp)
       THEN /\ user' = resp.user
            /\ isAuthenticated' = TRUE
            /\ tasks' = [tasks EXCEPT ![t].pc = "done", ![t].resp = resp,
                                      ![t].result = "success"]
            /\ UNCHANGED <<accessToken, stored>>
       ELSE /\ tasks' = [tasks EXCEPT ![t].pc = "done", ![t].resp = resp,
                                      ![t].result = "failure"]
            /\ UNCHANGED <<accessToken, stored, user, isAuthenticated>>
    /\ authLoading' = FALSE
    /\ AuthOnly
    /\ UNCHANGED <<ctxToken, regToken, timers, route, logoutPosts, tokenClears, loginNavs>>

\* The POST of register settles and its body is read.  With an OK status and
\* an access token the token is stored and the user set; otherwise, and when
\* the fetch or the parse threw, register returns a failure.  The finally block
\* resets isLoading.  The navigation is the signup page's.
RegisterSettles(t, resp) ==
    /\ tasks[t].kind = "register" /\ tasks[t].pc = "registerFetch"
    /\ IF RegisterSucceeds(resp)
       THEN /\ storeToken(resp.token)
            /\ user' = resp.user
            /\ isAuthenticated' = TRUE
            /\ tasks' = [tasks EXCEPT ![t].pc = "done", ![t].resp = resp,
                                      ![t].result = "success"]
       ELSE /\ tasks' = [tasks EXCEPT ![t].pc = "done", ![t].resp = resp,
                                      ![t].result = "failure"]
            /\ UNCHANGED <<accessToken, stored, user, isAuthenticated>>
    /\ authLoading' = FALSE
    /\ AuthOnly
    /\ UNCHANGED <<ctxToken, regToken, timers, route, logoutPosts, tokenClears, loginNavs>>

NextOps ==
    \/ InitAuthStart
    \/ \E r \in VerifyResponses : VerifySettles(r)
    \/ Render
    \/ RegisterEffect
    \/ LoginSubmit
    \/ \E t \in 1..Len(tasks), r \in LoginResponses : LoginSettles(t, r)
    \/ RegisterStart
    \/ \E t \in 1..Len(tasks), r \in LoginResponses : RegisterSettles(t, r)
    \/ LogoutStart
    \/ \E t \in 1..Len(tasks), o \in {"ok", "httpError", "reject"} : LogoutPostSettles(t, o)
    \/ TimerFires

SpecOps == InitRestore /\ [][NextOps]_vars

(***************************************************************************)
(* The file picker (the FileUpload component, part_007).  A File is its    *)
(* name, whether its extension and its MIME type are among the accepted    *)
(* ones, and its size in bytes; a message of the error list is its kind,   *)
(* the file it names and the number it quotes.                             *)
(***************************************************************************)

\* config.maxFileSizeMB, by default
maxFileSizeMB == 32

\* const maxSize = config.maxFileSizeMB * 1024 * 1024
maxSize == maxFileSizeMB * 1024 * 1024

\* The files a user may drop: exactly at the size limit, one byte above it, of
\* an accepted MIME type under another extension, and of another type and too
\* large.
Files ==
    {[name |-> "b.pdf", extOk |-> TRUE, mimeOk |-> TRUE, size |-> maxSize],
     [name |-> "c.pdf", extOk |-> TRUE, mimeOk |-> TRUE, size |-> maxSize + 1],
     [name |-> "e.bin", extOk |-> FALSE, mimeOk |-> TRUE, size |-> 1],
     [name |-> "f.exe", extOk |-> FALSE, mimeOk |-> FALSE, size |-> maxSize + 1]}

NoError == [kind |-> "none", file |-> Null, n |-> 0]
TooLarge(file) == [kind |-> "tooLarge", file |-> file.name, n |-> maxFileSizeMB]
BadFormat(file) == [kind |-> "badFormat", file |-> file.name, n |-> 0]
OtherError(file) == [kind |-> "other", file |-> file.name, n |-> 0]
CountError == [kind |-> "count", file |-> Null, n |-> maxFiles]

\* A step of the picker leaves the other parts alone.
PickerOnly == UNCHANGED <<storeVars, streamVars, authVars, restoreVars, chatVars, uploadVars>>

\* validateFile as it would be with an inclusive size limit.
validateFile_inclusive(file) ==
    IF file.size >= maxSize THEN TooLarge(file)
    ELSE IF ~file.extOk THEN BadFormat(file)
    ELSE NoError

validateFile(file) ==
    IF file.size > maxSize THEN TooLarge(file)
    ELSE IF ~file.extOk THEN BadFormat(file)
    ELSE NoError

\* What react-dropzone, given accept, maxSize and maxFiles, finds wrong with a
\* file: its type when neither MIME type nor extension is accepted, its size
\* when above maxSize.
DropzoneErrors(file) ==
    (IF ~(file.extOk \/ file.mimeOk) THEN <<"file-invalid-type">> ELSE <<>>)
    \o (IF file.size > maxSize THEN <<"file-too-large">> ELSE <<>>)

\* react-dropzone sorts the dropped files into those it accepts and those it
\* rejects, each with its errors; more accepted files than maxFiles are all
\* rejected as too many.
Dropzone(files) ==
    LET acc == SelectSeq(files, LAMBDA f : DropzoneErrors(f) = <<>>)
        rej == SelectSeq(files, LAMBDA f : DropzoneErrors(f) # <<>>)
        rejections == [i \in 1..Len(rej) |-> [file |-> rej[i],
                                              errors |-> DropzoneErrors(rej[i])]]
        tooMany == [i \in 1..Len(acc) |-> [file |-> acc[i],
                                           errors |-> <<"too-many-files">>]]
    IN  IF Len(acc) > maxFiles
        THEN [acceptedFiles |-> <<>>, rejectedFiles |-> rejections \o tooMany]
        ELSE [acceptedFiles |-> acc, rejectedFiles |-> rejections]

\* The message for one error of a rejected file.
RejectionMessage(file, code) ==
    IF code = "file-too-large" THEN TooLarge(file)
    ELSE IF code = "file-invalid-type" THEN BadFormat(file)
    ELSE OtherError(file)

\* The messages for the rejected files, file by file.
RECURSIVE RejectionMessages(_)
RejectionMessages(rejectedFiles) ==
    IF rejectedFiles = <<>> THEN <<>>
    ELSE LET r == Head(rejectedFiles)
         IN  [i \in 1..Len(r.errors) |-> RejectionMessage(r.file, r.errors[i])]
             \o RejectionMessages(Tail(rejectedFiles))

\* onDrop: the error list is emptied, the accepted files are validated, the
\* rejected ones turned into messages; when the total would exceed maxFiles
\* the handler returns with the count message in its local list only,
\* otherwise the valid files join the selection and the messages are shown.
\* The total is counted with the selectedFiles of the render that made the
\* handler (useCallback on [selectedFiles, ...]); the files are appended to
\* the selection of the state (setSelectedFiles(prev => ...)).
onDrop(acceptedFiles, rejectedFiles) ==
    LET checked == [i \in 1..Len(acceptedFiles) |-> validateFile(acceptedFiles[i])]
        validFiles == SelectSeq(acceptedFiles, LAMBDA f : validateFile(f) = NoError)
        newErrors == SelectSeq(checked, LAMBDA m : m # NoError)
                     \o RejectionMessages(rejectedFiles)
        totalFiles == Len(renderedFiles) + Len(validFiles)
    IN  IF totalFiles > maxFiles
        THEN /\ errors' = <<>>
             /\ UNCHANGED selectedFiles
        ELSE /\ selectedFiles' = selectedFiles \o validFiles
             /\ errors' = newErrors

\* The user drops files on the enabled dropzone, which reads them and then
\* calls onDrop, outside the event of the drop: a second drop may be handled
\* before the component has rendered the state the first one set.
Drop(files) ==
    /\ ~isUploading
    /\ LET sorted == Dropzone(files)
       IN  onDrop(sorted.acceptedFiles, sorted.rejectedFiles)
    /\ lastDrop' = [op |-> "onDrop", files |-> files, pre |-> selectedFiles,
                    calls |-> uploadCalls]
    /\ Len(selectedFiles') <= MaxSelected
    /\ UNCHANGED <<renderedFiles, isUploading, uploadCalls>>
    /\ PickerOnly

\* The component renders the state the drops have set: its handlers capture
\* the selection anew.
PickerRender ==
    /\ renderedFiles # selectedFiles
    /\ renderedFiles' = selectedFiles
    /\ UNCHANGED <<selectedFiles, errors, isUploading, uploadCalls, lastDrop>>
    /\ PickerOnly

\* The buttons are those of the last render, and what a click sets is
\* rendered before the next event is handled.
Clicked(files) ==
    /\ renderedFiles = selectedFiles
    /\ renderedFiles' = files

\* removeFile(index), from the button shown while not uploading
removeFile(index) ==
    /\ ~isUploading
    /\ selectedFiles' = [i \in 1..(Len(selectedFiles) - 1) |->
                            IF i < index THEN selectedFiles[i] ELSE selectedFiles[i + 1]]
    /\ Clicked(selectedFiles')
    /\ lastDrop' = [op |-> "removeFile", files |-> <<>>, pre |-> selectedFiles,
                    calls |-> uploadCalls]
    /\ UNCHANGED <<errors, isUploading, uploadCalls>>
    /\ PickerOnly

\* clearAll, from the button shown while files are selected and not uploading
clearAll ==
    /\ selectedFiles # <<>> /\ ~isUploading
    /\ Clicked(<<>>)
    /\ selectedFiles' = <<>>
    /\ errors' = <<>>
    /\ lastDrop' = [op |-> "clearAll", files |-> <<>>, pre |-> selectedFiles,
                    calls |-> uploadCalls]
    /\ UNCHANGED <<isUploading, uploadCalls>>
    /\ PickerOnly

\* handleUpload, from the upload button (enabled while files are selected and
\* not uploading): the selection goes to onUpload, with which the page starts
\* an upload, and is emptied.
handleUpload ==
    /\ selectedFiles # <<>> /\ ~isUploading
    /\ Clicked(<<>>)
    /\ uploadCalls < MaxUploads
    /\ uploadCalls' = uploadCalls + 1
    /\ isUploading' = TRUE
    /\ selectedFiles' = <<>>
    /\ errors' = <<>>
    /\ lastDrop' = [op |-> "handleUpload", files |-> <<>>, pre |-> selectedFiles,
                    calls |-> uploadCalls]
    /\ PickerOnly

\* The page's upload is over: setIsUploading(false).
UploadEnds ==
    /\ isUploading
    /\ isUploading' = FALSE
    /\ UNCHANGED <<selectedFiles, renderedFiles, errors, uploadCalls, lastDrop>>
    /\ PickerOnly

InitPicker ==
    StoreInit /\ StreamIdle /\ AuthIdle /\ RestoreIdle /\ ChatIdle /\ PickerIdle /\ UploadIdle

NextPicker ==
    \/ \E files \in SeqsUpTo(Files, MaxDrop) \ {<<>>} : Drop(files)
    \/ PickerRender
    \/ \E index \in 1..Len(selectedFiles) : removeFile(index)
    \/ clearAll
    \/ handleUpload
    \/ UploadEnds

SpecPicker == InitPicker /\ [][NextPicker]_vars

(***************************************************************************)
(* The chat screen: the dashboard page (page.tsx) with its case list, its  *)
(* tabs and the loading of a case's chat history, and the ChatInterface    *)
(* component it mounts on the chat tab of the current case.  The page and  *)
(* the component work on the application store.  A ChatMessage is its role *)
(* and the send that made it (0: it came with the history).                *)
(***************************************************************************)

\* A step of the chat screen leaves the other parts alone.
ChatOnly == UNCHANGED <<streamVars, authVars, restoreVars, pickerVars, uploadVars>>

\* The case lists the backend may answer getCases with.
CaseLists == {<<"c1">>, <<"c1", "c2">>}

\* The histories the backend may answer getChatHistory with.
Histories == {<<>>, <<[role |-> "user", send |-> 0], [role |-> "assistant", send |-> 0]>>}

\* The page renders a ChatInterface: {currentCase ? ... activeTab === 'documents' ? ... : <ChatInterface/>}
ChatMounted == currentCase # Null /\ activeTab = "chat"

\* useEffect on [currentCase]: loadCaseDetails(currentCase.id) requests the case
\* and its chat history.
LoadStarted(caseId) == Append(loads, [case |-> caseId, pc |-> "await"])

\* loadCases resolves: setCases, and with no current case the first case is
\* selected, whose details the effect then loads.
LoadCasesResolves(cs) ==
    /\ cases = <<>>
    /\ cases' = cs
    /\ currentCase' = cs[1]
    /\ chatMessages' = <<>>
    /\ streamingContent' = <<>>
    /\ selectedCitation' = Null
    /\ loads' = LoadStarted(cs[1])
    /\ UNCHANGED <<currentThread, isTyping, lastOp>>
    /\ UNCHANGED <<activeTab, chatIsLoading, input, sends, chatLog, historyOf>>
    /\ ChatOnly

\* The sidebar's onCaseSelect = setCurrentCase; a change of case runs the
\* effect that loads its details.
SelectCase(caseId) ==
    /\ \E i \in 1..Len(cases) : cases[i] = caseId
    /\ currentCase' = caseId
    /\ chatMessages' = <<>>
    /\ streamingContent' = <<>>
    /\ selectedCitation' = Null
    /\ IF caseId # currentCase
       THEN Len(loads) < MaxLoads /\ loads' = LoadStarted(caseId)
       ELSE UNCHANGED loads
    /\ UNCHANGED <<cases, currentThread, isTyping, lastOp>>
    /\ UNCHANGED <<activeTab, chatIsLoading, input, sends, chatLog, historyOf>>
    /\ ChatOnly

\* loadCaseDetails resolves: setChatMessages(history.messages).
HistoryResolves(l, history) ==
    /\ loads[l].pc = "await"
    /\ loads' = [loads EXCEPT ![l].pc = "settled"]
    /\ chatMessages' = history
    /\ historyOf' = loads[l].case
    /\ UNCHANGED <<cases, currentCase, currentThread, streamingContent, selectedCitation,
                   isTyping, lastOp>>
    /\ UNCHANGED <<activeTab, chatIsLoading, input, sends, chatLog>>
    /\ ChatOnly

\* loadCaseDetails fails: an error is shown, the transcript is left alone.
HistoryRejects(l) ==
    /\ loads[l].pc = "await"
    /\ loads' = [loads EXCEPT ![l].pc = "settled"]
    /\ UNCHANGED storeVars
    /\ UNCHANGED <<activeTab, chatIsLoading, input, sends, chatLog, historyOf>>
    /\ ChatOnly

\* The case header's onTabChange = setActiveTab.  The documents tab unmounts
\* the ChatInterface, and its state is gone; the chat tab mounts a new one,
\* with the initial values of its state.
SwitchTab(tab) ==
    /\ currentCase # Null
    /\ tab # activeTab
    /\ activeTab' = tab
    /\ sends' = [k \in 1..Len(sends) |-> [sends[k] EXCEPT !.live = FALSE]]
    /\ chatIsLoading' = FALSE
    /\ input' = FALSE
    /\ UNCHANGED storeVars
    /\ UNCHANGED <<loads, chatLog, historyOf>>
    /\ ChatOnly

\* The user types into the textarea, enabled unless isLoading.
TypeInput ==
    /\ ChatMounted
    /\ ~chatIsLoading
    /\ ~input
    /\ input' = TRUE
    /\ UNCHANGED storeVars
    /\ UNCHANGED <<activeTab, chatIsLoading, sends, loads, chatLog, historyOf>>
    /\ ChatOnly

\* handleSendMessage as it would be with the request issued before the user
\* message is appended.
handleSendMessage_requestFirst ==
    /\ ChatMounted
    /\ input /\ ~chatIsLoading
    /\ Len(sends) < MaxSends
    /\ chatMessages' = Append(chatMessages, [role |-> "user", send |-> Len(sends) + 1])
    /\ input' = FALSE
    /\ chatIsLoading' = TRUE
    /\ isTyping' = TRUE
    /\ streamingContent' = <<>>
    /\ sends' = Append(sends, [case |-> currentCase, live |-> TRUE, pc |-> "await"])
    /\ chatLog' = chatLog \o <<[ev |-> "request", send |-> Len(sends) + 1],
                               [ev |-> "addUser", send |-> Len(sends) + 1]>>
    /\ UNCHANGED <<cases, currentCase, currentThread, selectedCitation, lastOp>>
    /\ UNCHANGED <<activeTab, loads, historyOf>>
    /\ ChatOnly

\* handleSendMessage, up to its await: past the guard (text in the input, a
\* current case, not isLoading) the user message is appended, the input
\* emptied, isLoading and isTyping set, the streaming buffer cleared, and
\* chatWithCase called, which issues the request.
handleSendMessage ==
    /\ ChatMounted
    /\ input /\ ~chatIsLoading
    /\ Len(sends) < MaxSends
    /\ chatMessages' = Append(chatMessages, [role |-> "user", send |-> Len(sends) + 1])
    /\ input' = FALSE
    /\ chatIsLoading' = TRUE
    /\ isTyping' = TRUE
    /\ streamingContent' = <<>>
    /\ sends' = Append(sends, [case |-> currentCase, live |-> TRUE, pc |-> "await"])
    /\ chatLog' = chatLog \o <<[ev |-> "addUser", send |-> Len(sends) + 1],
                               [ev |-> "request", send |-> Len(sends) + 1]>>
    /\ UNCHANGED <<cases, currentCase, currentThread, selectedCitation, lastOp>>
    /\ UNCHANGED <<activeTab, loads, historyOf>>
    /\ ChatOnly

\* setIsLoading(false) of a send: it reaches the instance that sent, if that is
\* still mounted.
LoadingAfter(k) == IF sends[k].live THEN FALSE ELSE chatIsLoading

\* chatWithCase resolves: the assistant message is appended, isTyping and
\* isLoading reset.
ChatResolves(k) ==
    /\ sends[k].pc = "await"
    /\ sends' = [sends EXCEPT ![k].pc = "done"]
    /\ chatMessages' = Append(chatMessages, [role |-> "assistant", send |-> k])
    /\ isTyping' = FALSE
    /\ chatIsLoading' = LoadingAfter(k)
    /\ chatLog' = chatLog \o <<[ev |-> "response", send |-> k],
                               [ev |-> "addAssistant", send |-> k]>>
    /\ UNCHANGED <<cases, currentCase, currentThread, streamingContent, selectedCitation,
                   lastOp>>
    /\ UNCHANGED <<activeTab, input, loads, historyOf>>
    /\ ChatOnly

\* The catch block as it would be without setIsTyping(false).
ChatRejects_keepsTyping(k) ==
    /\ sends[k].pc = "await"
    /\ sends' = [sends EXCEPT ![k].pc = "failed"]
    /\ isTyping' = isTyping
    /\ chatIsLoading' = LoadingAfter(k)
    /\ streamingContent' = <<>>
    /\ chatLog' = Append(chatLog, [ev |-> "failure", send |-> k])
    /\ UNCHANGED <<cases, currentCase, currentThread, chatMessages, selectedCitation,
                   lastOp>>
    /\ UNCHANGED <<activeTab, input, loads, historyOf>>
    /\ ChatOnly

\* chatWithCase throws (the request failed, or its status was not OK): the
\* catch block resets isTyping and isLoading and clears the streaming buffer.
ChatRejects(k) ==
    /\ sends[k].pc = "await"
    /\ sends' = [sends EXCEPT ![k].pc = "failed"]
    /\ isTyping' = FALSE
    /\ chatIsLoading' = LoadingAfter(k)
    /\ streamingContent' = <<>>
    /\ chatLog' = Append(chatLog, [ev |-> "failure", send |-> k])
    /\ UNCHANGED <<cases, currentCase, currentThread, chatMessages, selectedCitation,
                   lastOp>>
    /\ UNCHANGED <<activeTab, input, loads, historyOf>>
    /\ ChatOnly

InitChat ==
    StoreInit /\ StreamIdle /\ AuthIdle /\ RestoreIdle /\ PickerIdle /\ ChatIdle /\ UploadIdle

NextChat ==
    \/ \E cs \in CaseLists : LoadCasesResolves(cs)
    \/ \E c \in CaseIds : SelectCase(c)
    \/ \E l \in 1..Len(loads), h \in Histories : HistoryResolves(l, h)
    \/ \E l \in 1..Len(loads) : HistoryRejects(l)
    \/ \E tab \in {"documents", "chat"} : SwitchTab(tab)
    \/ TypeInput
    \/ handleSendMessage
    \/ \E k \in 1..Len(sends) : ChatResolves(k)
    \/ \E k \in 1..Len(sends) : ChatRejects(k)

SpecChat == InitChat /\ [][NextChat]_vars

(***************************************************************************)
(* An upload batch: the page's handleFileUploadProcess (page.tsx) with     *)
(* ApiService.uploadDocuments and its simulated progress (part_000), and   *)
(* the progress panel (UploadProgress, part_006).  A file of a batch is    *)
(* its name; two files of one batch may bear the same name.  The timers of *)
(* simulateUploadProgress fire in the order of their delays, and before    *)
(* the timer of the minimum display time, which is due after them; an      *)
(* upload that failed early leaves timers behind, which fire while the     *)
(* next upload runs.                                                       *)
(***************************************************************************)
FileNames == {"a.pdf", "b.pdf"}

\* A step of an upload leaves the other parts alone; of the picker it touches
\* the isUploading prop, of the store the transcript.
UploadOnly ==
    /\ UNCHANGED <<streamVars, authVars, restoreVars, chatVars>>
    /\ UNCHANGED <<selectedFiles, renderedFiles, errors, uploadCalls, lastDrop>>
    /\ UNCHANGED <<cases, currentCase, currentThread, streamingContent, selectedCitation,
                   isTyping, lastOp>>

\* What the upload request may come to: the request function throws, the
\* response has an error status, the body of an OK response is not JSON, or
\* it is the backend's report: success false, or success true with the
\* outcome of each file.
UploadResponses(files) ==
    {[kind |-> "reject", success |-> FALSE, outcomes |-> <<>>],
     [kind |-> "notOk", success |-> FALSE, outcomes |-> <<>>],
     [kind |-> "badJson", success |-> FALSE, outcomes |-> <<>>],
     [kind |-> "json", success |-> FALSE, outcomes |-> <<>>]}
    \cup [kind : {"json"}, success : {TRUE},
          outcomes : [1..Len(files) -> {"ok", "failed"}]]

\* The mapping as it would be if every file were listed whatever its outcome.
NamesWith_all(files, outcomes, o) == files

\* result.results and result.failed, mapped to the file names: the names of the
\* files with this outcome, in the order of the batch.
RECURSIVE NamesWith(_, _, _)
NamesWith(files, outcomes, o) ==
    IF files = <<>> THEN <<>>
    ELSE (IF Head(outcomes) = o THEN <<Head(files)>> ELSE <<>>)
         \o NamesWith(Tail(files), Tail(outcomes), o)

\* onProgress of the running upload: setUploadProgress(progress)
onProgress(progress) ==
    /\ uploadProgress' = progress
    /\ lastDelivered' = progress

\* handleFileUpload(files), called by the picker's onUpload (the picker is
\* disabled while isUploading): with a current case handleFileUploadProcess
\* starts; it resets the panel's state and calls uploadDocuments, which starts
\* the progress timers and issues the request.
StartUpload(files) ==
    /\ currentCase # Null
    /\ ~isUploading
    /\ staleFired = Len(steps)
    /\ isUploading' = TRUE
    /\ showUploadProgress' = TRUE
    /\ uploadProgress' = 1
    /\ processingFiles' = files
    /\ completedFiles' = <<>>
    /\ failedFiles' = <<>>
    /\ upPc' = "request"
    /\ upCase' = currentCase
    /\ upFiles' = files
    /\ upResp' = NoUploadResp
    /\ staleFired' = fired
    /\ fired' = 0
    /\ lastDelivered' = 0
    /\ failuresReported' = 0
    /\ reloads' = 0
    /\ UNCHANGED <<documents, chatMessages>>
    /\ UploadOnly

\* The next timer of simulateUploadProgress fires: onProgress(steps[index]).
MilestoneFires ==
    /\ fired < Len(steps)
    /\ staleFired > fired
    /\ fired' = fired + 1
    /\ onProgress(steps[fired + 1])
    /\ UNCHANGED <<upPc, upCase, upFiles, upResp, staleFired, showUploadProgress,
                   processingFiles, completedFiles, failedFiles, documents,
                   failuresReported, reloads>>
    /\ UNCHANGED <<isUploading, chatMessages>>
    /\ UploadOnly

\* A timer left by the upload before fires: its onProgress sets the progress too.
StaleMilestoneFires ==
    /\ staleFired < Len(steps)
    /\ staleFired' = staleFired + 1
    /\ uploadProgress' = steps[staleFired + 1]
    /\ UNCHANGED <<upPc, upCase, upFiles, upResp, fired, showUploadProgress,
                   processingFiles, completedFiles, failedFiles, documents, lastDelivered,
                   failuresReported, reloads>>
    /\ UNCHANGED <<isUploading, chatMessages>>
    /\ UploadOnly

\* The catch and finally blocks of handleFileUploadProcess, as they would be
\* without the reset of the processing list.
UploadCatch_keepsProcessing ==
    /\ processingFiles' = processingFiles
    /\ failedFiles' = upFiles
    /\ isUploading' = FALSE
    /\ upPc' = "done"
    /\ UNCHANGED <<completedFiles, failuresReported, reloads, documents, chatMessages>>

\* The catch and finally blocks of handleFileUploadProcess: the error is shown,
\* every file of the batch is listed as failed, isUploading is reset.
UploadCatch ==
    /\ processingFiles' = <<>>
    /\ failedFiles' = upFiles
    /\ isUploading' = FALSE
    /\ upPc' = "done"
    /\ UNCHANGED <<completedFiles, failuresReported, reloads, documents, chatMessages>>

\* The request function throws: uploadDocuments resets the progress and
\* rethrows.
UploadRequestRejects ==
    /\ upPc = "request"
    /\ upResp' = [kind |-> "reject", success |-> FALSE, outcomes |-> <<>>]
    /\ onProgress(0)
    /\ UploadCatch
    /\ UNCHANGED <<upCase, upFiles, fired, staleFired, showUploadProgress>>
    /\ UploadOnly

\* The request function returns a response: onProgress(100), and
\* handleJsonResponse starts to read its body.
UploadResponds(resp) ==
    /\ upPc = "request"
    /\ resp.kind # "reject"
    /\ upResp' = resp
    /\ onProgress(100)
    /\ upPc' = "body"
    /\ UNCHANGED <<upCase, upFiles, fired, staleFired, showUploadProgress, processingFiles,
                   completedFiles, failedFiles, documents, failuresReported, reloads>>
    /\ UNCHANGED <<isUploading, chatMessages>>
    /\ UploadOnly

\* handleJsonResponse settles.  It throws for an error status and for a body
\* that is not JSON: uploadDocuments resets the progress and rethrows.
\* Otherwise uploadDocuments returns the mapped report, and the page waits
\* for the rest of the minimum display time.
UploadBodySettles ==
    /\ upPc = "body"
    /\ IF upResp.kind = "json"
       THEN /\ upPc' = "minDisplay"
            /\ UNCHANGED <<uploadProgress, lastDelivered, processingFiles,
                           completedFiles, failedFiles, isUploading, failuresReported,
                           reloads, documents, chatMessages>>
       ELSE /\ onProgress(0)
                    /\ UploadCatch
    /\ UNCHANGED <<upCase, upFiles, upResp, fired, staleFired, showUploadProgress>>
    /\ UploadOnly

\* uploadResponse.successful_count and uploadResponse.failed_count
CountWith(o) == Len(NamesWith(upFiles, upResp.outcomes, o))

\* The minimum display time is over.  With success the lists are set from the
\* report and, with a document that succeeded, loadCaseDetails is called and
\* awaited; without success every file of the batch is listed as failed.
MinDisplayEnds ==
    /\ upPc = "minDisplay"
    /\ fired = Len(steps)
    /\ processingFiles' = <<>>
    /\ IF upResp.success
       THEN /\ completedFiles' = NamesWith(upFiles, upResp.outcomes, "ok")
            /\ failedFiles' = NamesWith(upFiles, upResp.outcomes, "failed")
            /\ IF CountWith("ok") > 0
               THEN /\ upPc' = "reload"
                    /\ reloads' = reloads + 1
                    /\ UNCHANGED <<isUploading, failuresReported>>
               ELSE /\ upPc' = "done"
                    /\ failuresReported' = CountWith("failed")
                    /\ isUploading' = FALSE
                    /\ UNCHANGED reloads
       ELSE /\ failedFiles' = upFiles
            /\ upPc' = "done"
            /\ isUploading' = FALSE
            /\ UNCHANGED <<completedFiles, failuresReported, reloads>>
    /\ UNCHANGED <<upCase, upFiles, upResp, fired, staleFired, showUploadProgress,
                   uploadProgress, documents, lastDelivered, chatMessages>>
    /\ UploadOnly

\* loadCaseDetails settles: with the case and its history it sets the
\* documents, which now include those of the batch that succeeded, and the
\* transcript; when it failed it shows the error and sets nothing.  Back in
\* handleFileUploadProcess the count of the failed documents is reported, if
\* any, and isUploading reset.
ReloadSettles(ok, history) ==
    /\ upPc = "reload"
    /\ IF ok
       THEN /\ documents' = documents \cup {completedFiles[i] : i \in 1..Len(completedFiles)}
            /\ chatMessages' = history
       ELSE UNCHANGED <<documents, chatMessages>>
    /\ failuresReported' = CountWith("failed")
    /\ isUploading' = FALSE
    /\ upPc' = "done"
    /\ UNCHANGED <<upCase, upFiles, upResp, fired, staleFired, showUploadProgress,
                   uploadProgress, processingFiles, completedFiles, failedFiles,
                   lastDelivered, reloads>>
    /\ UploadOnly

\* const processedFiles === totalFiles, the condition of the panel's close button
CanClose ==
    Len(completedFiles) + Len(failedFiles)
        = Len(processingFiles) + Len(completedFiles) + Len(failedFiles)

\* The close button of the visible panel: onClose = setShowUploadProgress(false).
ClosePanel ==
    /\ showUploadProgress
    /\ CanClose
    /\ showUploadProgress' = FALSE
    /\ UNCHANGED <<upPc, upCase, upFiles, upResp, fired, staleFired, uploadProgress,
                   processingFiles, completedFiles, failedFiles, documents, lastDelivered,
                   failuresReported, reloads>>
    /\ UNCHANGED <<isUploading, chatMessages>>
    /\ UploadOnly

\* The dashboard with a case selected, one without a chat history.
InitUpload ==
    /\ StreamIdle /\ AuthIdle /\ RestoreIdle /\ PickerIdle /\ ChatIdle /\ UploadIdle
    /\ cases = <<"c1">>
    /\ currentCase = "c1"
    /\ currentThread = Null
    /\ chatMessages = <<>>
    /\ streamingContent = <<>>
    /\ selectedCitation = Null
    /\ isTyping = FALSE
    /\ lastOp = [op |-> "create", arg |-> Null, pre |-> FALSE]

NextUpload ==
    \/ \E files \in SeqsUpTo(FileNames, MaxBatch) \ {<<>>} : StartUpload(files)
    \/ MilestoneFires
    \/ StaleMilestoneFires
    \/ UploadRequestRejects
    \/ \E resp \in UploadResponses(upFiles) : UploadResponds(resp)
    \/ UploadBodySettles
    \/ MinDisplayEnds
    \/ \E ok \in BOOLEAN : ReloadSettles(ok, <<>>)
    \/ ClosePanel

SpecUpload == InitUpload /\ [][NextUpload]_vars

\* The requests, the file reads and the timers of the browser settle and fire.
FairUpload ==
    /\ WF_vars(MilestoneFires)
    /\ WF_vars(StaleMilestoneFires)
    /\ WF_vars(UploadRequestRejects \/ \E resp \in UploadResponses(upFiles) : UploadResponds(resp))
    /\ WF_vars(UploadBodySettles)
    /\ WF_vars(MinDisplayEnds)
    /\ WF_vars(\E ok \in BOOLEAN : ReloadSettles(ok, <<>>))

SpecUploadLive == SpecUpload /\ FairUpload

(***************************************************************************)
(* Claims about the application store, under SpecStore.                    *)
(***************************************************************************)

\* C1: after setCurrentCase(c), for any case c or null and from any state, the
\* chat transcript is empty, the streaming buffer is the empty string,
\* selectedCitation is null and currentCase is c: one store update does all four.
C1_SetCurrentCaseResets ==
    \A c \in CaseIds \cup {Null} :
        (lastOp.op = "setCurrentCase" /\ lastOp.arg = c) =>
            /\ currentCase = c
            /\ chatMessages = <<>>
            /\ streamingContent = <<>>
            /\ selectedCitation = Null

\* C1 witness: setCurrentCase has just selected a case from a state whose
\* transcript was not empty.
C1_Witness ==
    /\ lastOp.op = "setCurrentCase"
    /\ lastOp.pre
    /\ currentCase \in CaseIds
    /\ chatMessages = <<>>

\* C2: removeCase(id) leaves no case with that id in the case list; when id is
\* the current case's id it sets currentCase and currentThread to null and empties
\* chatMessages; otherwise it leaves all three exactly as they were.
C2_RemoveCaseEffect ==
    [][\A id \in CaseIds :
        (lastOp'.op = "removeCase" /\ lastOp'.arg = id) =>
            /\ \A i \in 1..Len(cases') : cases'[i] # id
            /\ (currentCase = id) =>
                   (currentCase' = Null /\ currentThread' = Null /\ chatMessages' = <<>>)
            /\ (currentCase # id) =>
                   UNCHANGED <<currentCase, currentThread, chatMessages>>]_vars

\* C2 witness: a case other than the current one has just been removed, and the
\* current case, its thread and a non-empty transcript are still there.
C2_Witness ==
    /\ lastOp.op = "removeCase"
    /\ ~lastOp.pre
    /\ currentCase \in CaseIds
    /\ currentThread # Null
    /\ chatMessages # <<>>

(***************************************************************************)
(* Claims about the streaming chat consumer, under SpecStream.             *)
(***************************************************************************)

\* The callbacks invoked, in order (the history without its read requests).
Callbacks(cs) == SelectSeq(cs, LAMBDA e : e.cb # "read")

\* Every fragment ends with a newline: the transport cut only between lines.
WholeLineFragments ==
    \A i \in 1..Len(fragments) : fragments[i][Len(fragments[i])] = "\n"

\* The stream is content events followed by one done event.
ContentThenDone ==
    /\ Len(lineKinds) >= 1
    /\ lineKinds[Len(lineKinds)] = "done"
    /\ \A i \in 1..(Len(lineKinds) - 1) : lineKinds[i] = "content"

\* What a stream of whole lines of these kinds is to deliver: a chunk for every
\* event up to and with the first done or error, then onComplete; onComplete
\* alone at the end of a stream without one.
RECURSIVE Expected(_)
Expected(kinds) ==
    IF kinds = <<>> THEN <<OnComplete>>
    ELSE IF Head(kinds) \in {"done", "error"} THEN <<OnChunk(Head(kinds)), OnComplete>>
    ELSE IF Head(kinds) = "content" THEN <<OnChunk("content")>> \o Expected(Tail(kinds))
    ELSE Expected(Tail(kinds))

\* C3 as amended: for a stream of whole data lines, content events followed by
\* a done event, onChunk is invoked once per event in stream order, the done
\* event included, and then onComplete once.
C3_ChunkPerEventThenComplete ==
    (spc = "resolved" /\ fault = Null /\ WholeLineFragments /\ ContentThenDone) =>
        Callbacks(calls) =
            [i \in 1..Len(lineKinds) |-> OnChunk(lineKinds[i])] \o <<OnComplete>>

\* C3 as claimed: for such a stream onChunk is invoked once per content event,
\* then onComplete once, and never onChunk for the done event.
C3_NoChunkForDone ==
    (spc = "resolved" /\ fault = Null /\ WholeLineFragments /\ ContentThenDone) =>
        Callbacks(calls) =
            [i \in 1..(Len(lineKinds) - 1) |-> OnChunk("content")] \o <<OnComplete>>

\* C3 witness: the stream of a content line and a done line, a fragment each,
\* has been consumed to its end.
C3_Witness ==
    /\ spc = "resolved"
    /\ fault = Null
    /\ lineKinds = <<"content", "done">>
    /\ Len(fragments) = 2
    /\ WholeLineFragments
    /\ calls = <<ReadCall, OnChunk("content"), ReadCall, OnChunk("done"), OnComplete>>

\* C4: once an event of type done or error has been parsed (and handed to
\* onChunk), onComplete follows and nothing else ever does: no callback for a
\* later line or fragment, no further read, and the call has ended.
C4_TerminalEventStops ==
    \A i \in 1..Len(calls) :
        (calls[i].cb = "onChunk" /\ calls[i].type \in {"done", "error"}) =>
            /\ Len(calls) = i + 1
            /\ calls[i + 1] = OnComplete
            /\ spc = "resolved"
            /\ ~ENABLED NextStream

\* C4 witness: a done line came first in a fragment of two lines, with a
\* second fragment behind it, and the call ended after the done event.
C4_Witness ==
    /\ spc = "resolved"
    /\ lineKinds = <<"done", "content", "content">>
    /\ Len(fragments) = 2
    /\ Len(fragments[1]) = 8
    /\ readIdx = 1
    /\ calls = <<ReadCall, OnChunk("done"), OnComplete>>

\* C5: a stream with a data line that is not JSON: unless the transport fails,
\* onError is never called and the call does not throw; and a stream of whole
\* lines delivers exactly what it would deliver without its malformed lines,
\* so these invoke no callback and end nothing.
C5_MalformedSkipped ==
    (\E i \in 1..Len(lineKinds) : lineKinds[i] = "malformed") =>
        /\ fault = Null => \A i \in 1..Len(calls) : calls[i].cb # "onError"
        /\ secureApiRequest # Null => spc # "rejected"
        /\ (spc = "resolved" /\ fault = Null /\ WholeLineFragments) =>
               Callbacks(calls) =
                   Expected(SelectSeq(lineKinds, LAMBDA k : k # "malformed"))

\* C5 witness: a malformed line, then a content line and a done line, have been
\* consumed: the content and done events were delivered and onComplete called.
C5_Witness ==
    /\ spc = "resolved"
    /\ fault = Null
    /\ lineKinds = <<"malformed", "content", "done">>
    /\ Len(fragments) = 2
    /\ WholeLineFragments
    /\ Callbacks(calls) = <<OnChunk("content"), OnChunk("done"), OnComplete>>

(***************************************************************************)
(* Claims about the session/auth state, under SpecAuth.                    *)
(***************************************************************************)

\* A path with /login or /logout in it.
AuthPath(url) == url \in {UrlLogin, UrlLogout, UrlLogins}

\* The outcomes of a logout POST that has settled, or was not sent.
Settled == {"ok", "httpError", "reject", "skipped"}

\* C6: when the requests of a run are two or more authenticated requests to a
\* path without /login or /logout, all in flight together, and each has
\* received 401 and returned, one logout cycle has been performed in total: one
\* logout POST, one clearing of the token, one navigation to the login screen.
C6_OneLogoutCycle ==
    (/\ Len(tasks) >= 2
     /\ \A t \in 1..Len(tasks) :
            /\ tasks[t].kind = "api"
            /\ tasks[t].pc = "done"
            /\ tasks[t].status = 401
            /\ tasks[t].url = UrlCases
            /\ tasks[t].auth # Null
            /\ tasks[t].inflight = 1..(t - 1))
    => (logoutPosts = 1 /\ tokenClears = 1 /\ loginNavs = 1)

C9_LoginFailureFrame ==
    [][/\ (Len(tasks') = Len(tasks) + 1 /\ tasks'[Len(tasks')].kind = "login") =>
              UNCHANGED <<accessToken, stored, user, isAuthenticated, timers, route>>
       /\ \A t \in 1..Len(tasks) :
              (/\ tasks[t].kind = "login"
               /\ tasks[t].pc = "loginFetch"
               /\ tasks'[t].pc # "loginFetch"
               /\ ~(/\ tasks'[t].resp.kind = "json"
                    /\ tasks'[t].resp.ok
                    /\ tasks'[t].resp.token # Null)) =>
                  /\ tasks'[t].pc = "done"
                  /\ tasks'[t].result = "failure"
                  /\ UNCHANGED <<accessToken, stored, user, isAuthenticated, timers,
                                 route>>]_vars

\* C9 witness: after a successful login, a second login got an OK response
\* without a token and returned a failure; the session of the first is intact.
C9_Witness ==
    /\ Len(tasks) = 2
    /\ tasks[1].kind = "login" /\ tasks[1].result = "success"
    /\ tasks[2].kind = "login" /\ tasks[2].result = "failure"
    /\ tasks[2].resp.kind = "json" /\ tasks[2].resp.ok /\ tasks[2].resp.token = Null
    /\ isAuthenticated
    /\ accessToken = tasks[1].resp.token
    /\ stored = tasks[1].resp.token
    /\ user = "u1"

\* C10: the step in which the POST of a logout settles, however it does, and
\* the call of a logout that finds no token and sends none, ends the logout
\* without a throw, with the token cleared in memory and in storage, user null,
\* isAuthenticated false and the router pushed to /login.
C10_LogoutAlwaysClears ==
    [][\A t \in 1..Len(tasks') :
        (/\ tasks'[t].kind = "logout"
         /\ tasks'[t].post \in Settled
         /\ (t > Len(tasks) \/ tasks[t].post = "pending")) =>
            /\ tasks'[t].pc = "done"
            /\ accessToken' = Null
            /\ stored' = Null
            /\ user' = Null
            /\ ~isAuthenticated'
            /\ route' = "/login"
            /\ loginNavs' = loginNavs + 1]_vars

\* C10 witness: after a successful login a logout was called, its POST was
\* rejected, and the session is cleared and the router at /login.
C10_Witness ==
    /\ Len(tasks) = 2
    /\ tasks[1].kind = "login" /\ tasks[1].result = "success"
    /\ tasks[2].kind = "logout" /\ tasks[2].pc = "done" /\ tasks[2].post = "reject"
    /\ accessToken = Null
    /\ stored = Null
    /\ user = Null
    /\ ~isAuthenticated
    /\ route = "/login"

(***************************************************************************)
(* Claims about session restore, under SpecRestore.                        *)
(***************************************************************************)

ValidDropped ==
    {i \in 1..Len(lastDrop.files) :
        /\ lastDrop.files[i].extOk
        /\ lastDrop.files[i].size <= maxFileSizeMB * 1024 * 1024}

\* The last handler was a drop that would take the selection above the
\* per-batch maximum.
DropExceedsCount ==
    /\ lastDrop.op = "onDrop"
    /\ Len(lastDrop.pre) + Cardinality(ValidDropped) > maxFiles

\* The last handler was a drop of more files acceptable to the dropzone than
\* the per-batch maximum, which the dropzone rejects as a whole.
DropTooMany ==
    /\ lastDrop.op = "onDrop"
    /\ Cardinality({i \in 1..Len(lastDrop.files) :
                       /\ lastDrop.files[i].extOk \/ lastDrop.files[i].mimeOk
                       /\ lastDrop.files[i].size <= maxFileSizeMB * 1024 * 1024})
           > maxFiles

\* The files the last drop added to the selection.
AddedByDrop == SubSeq(selectedFiles, Len(lastDrop.pre) + 1, Len(selectedFiles))

C13_CountMessageShown ==
    DropExceedsCount =>
        /\ selectedFiles = lastDrop.pre
        /\ uploadCalls = lastDrop.calls
        /\ \E k \in 1..Len(errors) : errors[k].kind = "count" /\ errors[k].n = maxFiles

\* C29: after any drops, removals, clear-all and uploads, two drops handled
\* before the component has rendered included, no more files are selected
\* than the per-batch maximum, and so no upload is started with more.
C29_SelectionWithinMaximum ==
    /\ Len(selectedFiles) <= maxFiles
    /\ lastDrop.op = "handleUpload" => Len(lastDrop.pre) <= maxFiles

(***************************************************************************)
(* Claims about the streaming chat consumer's failures and its terminal    *)
(* callbacks, under SpecStream.                                            *)
(***************************************************************************)

\* The stream's first done or error line is an error line, the transport cut
\* the stream between lines only and failed nowhere, and the call has ended:
\* the error frame has reached the consumer whole.
ErrorFrameConsumed ==
    /\ spc = "resolved"
    /\ fault = Null
    /\ WholeLineFragments
    /\ \E i \in 1..Len(lineKinds) :
           /\ lineKinds[i] = "error"
           /\ \A j \in 1..(i - 1) : lineKinds[j] \notin {"done", "error"}

\* C14: a frame of type error ends the stream and is reported to the caller
\* through onError.
C14_ErrorFrameToOnError ==
    ErrorFrameConsumed =>
        /\ \E i \in 1..Len(calls) : calls[i].cb = "onError"
        /\ ~ENABLED NextStream

\* C15: when the request throws, answers with a non-OK status or without a
\* readable body, or a read rejects, onError is invoked exactly once, with the
\* message of that error, as the last thing the call does (no further request
\* or read), onComplete is not invoked, and the promise resolves.
C15_FailureReportedOnce ==
    fault # Null =>
        /\ spc = "resolved"
        /\ Len(calls) >= 1
        /\ calls[Len(calls)].cb = "onError"
        /\ calls[Len(calls)].type =
               (CASE fault = "throws"      -> "message of the request's error"
                  [] fault = "notOk"       -> "HTTP error! status: n"
                  [] fault = "noBody"      -> "No reader available"
                  [] fault = "readRejects" -> "message of the read's error")
        /\ Cardinality({i \in 1..Len(calls) : calls[i].cb = "onError"}) = 1
        /\ \A i \in 1..Len(calls) : calls[i].cb # "onComplete"
        /\ ~ENABLED NextStream

\* A read was rejected after a content event had been delivered.
C15_Witness ==
    /\ spc = "resolved"
    /\ fault = "readRejects"
    /\ Len(calls) = 4
    /\ calls[2] = OnChunk("content")
    /\ calls[4].cb = "onError"

RECURSIVE Delivers(_)
Delivers(frags) ==
    IF frags = <<>> THEN <<OnComplete>>
    ELSE LET r == ProcessLines(Split(Head(frags)))
         IN  IF r.returned THEN r.out ELSE r.out \o Delivers(Tail(frags))

\* C17: the callbacks depend on the stream text only, not on where the
\* transport cuts it: whatever the fragments, a call that ended without a
\* transport failure has invoked the callbacks it invokes when the text
\* arrives in one piece.
C17_FragmentationIndependent ==
    (spc = "resolved" /\ fault = Null) =>
        Callbacks(calls) =
            Delivers(IF lineKinds = <<>> THEN <<>> ELSE <<StreamText(lineKinds)>>)

(***************************************************************************)
(* Claims about the request function registered with the API service,     *)
(* under SpecSession.                                                      *)
(***************************************************************************)

\* C20: once a change of the token is complete (memory and storage agree on
\* it), every request issued through the registered request function carries
\* the current token, and no Authorization header when the token has been
\* cleared, whether or not the effect has registered the function of the
\* latest render.
C20_NoStaleToken ==
    [][(/\ Len(tasks') = Len(tasks) + 1
        /\ tasks'[Len(tasks')].kind = "api"
        /\ accessToken = stored)
       => tasks'[Len(tasks')].auth = accessToken]_vars

(***************************************************************************)
(* Claims about the chat screen, under SpecChat.                           *)
(***************************************************************************)

\* Whether, and where, the log has this event of this send.
Logged(ev, k) == \E i \in 1..Len(chatLog) : chatLog[i] = [ev |-> ev, send |-> k]
LoggedAt(ev, k) == CHOOSE i \in 1..Len(chatLog) : chatLog[i] = [ev |-> ev, send |-> k]

\* Every send appended its user message before it issued its request, appended
\* an assistant message only after its response, and none when it failed; an
\* assistant message of a send is in the transcript only when that send has
\* resolved, and behind the user message of that send.
SendsInOrder ==
    /\ \A k \in 1..Len(sends) :
        /\ Logged("addUser", k) /\ Logged("request", k)
        /\ LoggedAt("addUser", k) < LoggedAt("request", k)
        /\ Logged("addAssistant", k) =>
               /\ Logged("response", k)
               /\ LoggedAt("request", k) < LoggedAt("response", k)
               /\ LoggedAt("response", k) < LoggedAt("addAssistant", k)
        /\ Logged("failure", k) => ~Logged("addAssistant", k)
    /\ \A i \in 1..Len(chatMessages) :
        (chatMessages[i].role = "assistant" /\ chatMessages[i].send > 0) =>
            /\ sends[chatMessages[i].send].pc = "done"
            /\ \A j \in 1..Len(chatMessages) :
                   chatMessages[j] = [role |-> "user", send |-> chatMessages[i].send]
                       => j < i

\* A send that starts appends its user message to the transcript, one that
\* resolves appends its assistant message, one that fails leaves the
\* transcript as it is.
SendStep ==
    \A k \in 1..Len(sends') :
        /\ k > Len(sends) =>
               chatMessages' = Append(chatMessages, [role |-> "user", send |-> k])
        /\ (k <= Len(sends) /\ sends[k].pc = "await" /\ sends'[k].pc = "done") =>
               chatMessages' = Append(chatMessages, [role |-> "assistant", send |-> k])
        /\ (k <= Len(sends) /\ sends[k].pc = "await" /\ sends'[k].pc = "failed") =>
               chatMessages' = chatMessages

\* C18: a send appends the user message to the transcript at once, before its
\* request is issued; it appends an assistant message only after its request
\* has resolved successfully, at the end of the transcript and so behind its
\* user message; when the request fails the send appends no assistant message
\* and leaves the transcript, the user message with it, as it is.
C18_SendOrder == []SendsInOrder /\ [][SendStep]_vars

\* A first send has been answered; a second one failed and its user message
\* is still the last of the transcript.
C18_Witness ==
    /\ Len(sends) = 2
    /\ sends[1].pc = "done"
    /\ sends[2].pc = "failed"
    /\ chatMessages = <<[role |-> "user", send |-> 1], [role |-> "assistant", send |-> 1],
                        [role |-> "user", send |-> 2]>>

\* C19: no two chat requests of one case are in flight together, whatever the
\* user does while a send awaits its response (sending again, leaving the chat
\* tab and coming back, selecting another case).
C19_OneRequestInFlight ==
    \A j, k \in 1..Len(sends) :
        (sends[j].pc = "await" /\ sends[k].pc = "await" /\ sends[j].case = sends[k].case)
            => j = k

(***************************************************************************)
(* Claims about an upload batch, under SpecUpload and SpecUploadLive.      *)
(***************************************************************************)

\* No name is in both lists.
Disjoint(a, b) == \A i \in 1..Len(a), j \in 1..Len(b) : a[i] # b[j]

\* C21: while and after a batch is uploaded, no file name is in two of the
\* lists processing, completed and failed, and the progress value is an
\* integer from 0 to 100.
C21_DisjointListsAndProgress ==
    upPc # "idle" =>
        /\ Disjoint(processingFiles, completedFiles)
        /\ Disjoint(processingFiles, failedFiles)
        /\ Disjoint(completedFiles, failedFiles)
        /\ uploadProgress \in 0..100

\* How often a name is in a list, and how many files of the batch bear the name
\* and met with the outcome.
Occurrences(list, name) == Cardinality({i \in 1..Len(list) : list[i] = name})
FilesWith(name, o) ==
    Cardinality({i \in 1..Len(upFiles) : upFiles[i] = name /\ upResp.outcomes[i] = o})
Reported == upResp.kind = "json" /\ upResp.success
SomeFileWith(o) == \E i \in 1..Len(upFiles) : upResp.outcomes[i] = o

\* Once the lists are set: after a report, each file is listed once, as
\* completed or as failed by its own outcome; after a request that failed as a
\* whole, every file is listed as failed and none as completed.  When the
\* call has returned, the count of the failed files has been reported.
BatchSettled ==
    /\ (upPc \in {"reload", "done"} /\ Reported) =>
           /\ processingFiles = <<>>
           /\ Len(completedFiles) + Len(failedFiles) = Len(upFiles)
           /\ \A n \in FileNames :
                  /\ Occurrences(completedFiles, n) = FilesWith(n, "ok")
                  /\ Occurrences(failedFiles, n) = FilesWith(n, "failed")
    /\ (upPc = "done" /\ Reported) =>
           failuresReported = Cardinality({i \in 1..Len(upFiles) :
                                              upResp.outcomes[i] = "failed"})
    /\ (upPc = "done" /\ ~Reported) =>
           /\ processingFiles = <<>>
           /\ failedFiles = upFiles
           /\ completedFiles = <<>>

\* With a file that succeeded the details of the case are loaded again before
\* the call returns, and a load that succeeds lists the completed files among
\* the documents.
BatchStep ==
    /\ (upPc = "minDisplay" /\ upPc' # "minDisplay" /\ Reported /\ SomeFileWith("ok")) =>
           upPc' = "reload" /\ reloads' = reloads + 1
    /\ (upPc = "reload" /\ upPc' = "done" /\ documents' # documents) =>
           \A i \in 1..Len(completedFiles) : completedFiles[i] \in documents'
    /\ (upPc' = "done" /\ upPc # "done" /\ Reported /\ SomeFileWith("ok")) =>
           upPc = "reload"

\* C22: when the backend reports a batch, each file ends in the completed or
\* in the failed list by its own outcome, the details of the case are loaded
\* again when a file succeeded, and the number of failed files is reported;
\* when the request fails as a whole, every file of the batch ends in the
\* failed list and none in the completed list.
C22_PartialFailure == []BatchSettled /\ [][BatchStep]_vars

\* A batch of two files, the first processed, the second failed: the case was
\* loaded again and one failure reported.
C22_Witness ==
    /\ upPc = "done"
    /\ Reported
    /\ upResp.outcomes = <<"ok", "failed">>
    /\ completedFiles = <<upFiles[1]>>
    /\ failedFiles = <<upFiles[2]>>
    /\ reloads = 1
    /\ failuresReported = 1

\* The panel is closed only while no file is listed as processing.
CloseStep == (showUploadProgress /\ ~showUploadProgress') => processingFiles = <<>>

\* A batch has been started and its call has not returned.
BatchRunning == upPc \in {"request", "body", "minDisplay", "reload"}

\* The call has returned: no file is listed as processing, isUploading is reset.
BatchOver == upPc = "done" /\ processingFiles = <<>> /\ ~isUploading

\* C24: the progress panel can be closed only when no file of the batch is
\* listed as processing, and every batch that is started comes to the state
\* where none is and isUploading is false, whether the request succeeds, reports
\* a failure, or throws.
C24_BatchResolves == [][CloseStep]_vars /\ (BatchRunning ~> BatchOver)

\* A batch whose request threw is over, and its panel has been closed.
C24_Witness ==
    /\ BatchOver
    /\ upResp.kind = "reject"
    /\ ~showUploadProgress

\* The request of the upload has settled for uploadDocuments: it returned the
\* report, or it threw.
UploadSettled == upPc \in {"minDisplay", "reload", "done"}

\* What a step does to the progress this upload reports: while the request is
\* pending the value does not go down; the step that settles it reports 100
\* with the report of the backend and 0 with an error; afterwards nothing is
\* reported.
ProgressStep ==
    /\ (upPc = "request" /\ upPc' = "request") => lastDelivered' >= lastDelivered
    /\ (~UploadSettled /\ UploadSettled') =>
           lastDelivered' = IF upResp'.kind = "json" THEN 100 ELSE 0
    /\ (UploadSettled /\ UploadSettled') => lastDelivered' = lastDelivered

\* C25: within one upload the values passed to onProgress do not go down while
\* the request is pending, and once the request has settled the progress
\* reported is final, 100 after a report and 0 after an error: no timer of the
\* simulated progress reports a value afterwards, whenever the response comes.
C25_ProgressFinal == [][ProgressStep]_vars

(***************************************************************************)
(* Claims about the headers of the request helper, under SpecSession.      *)
(***************************************************************************)

\* C23: a request built by apiRequest carries an Authorization header if and
\* only if a token is present, in memory or in sessionStorage, and carries
\* the JSON Content-Type unless its body is a FormData, for which it carries
\* none.
C23_RequestHeaders ==
    [][(Len(tasks') = Len(tasks) + 1 /\ tasks'[Len(tasks')].kind = "api") =>
          LET request == tasks'[Len(tasks')]
          IN  /\ request.auth # Null <=> (accessToken # Null \/ stored # Null)
              /\ request.contentType = Null <=> request.form
              /\ ~request.form => request.contentType = "application/json"]_vars

(***************************************************************************)
(* Claims about the transcript and the busy flags of the chat screen,      *)
(* under SpecChat.                                                         *)
(***************************************************************************)

\* The case a message of the transcript belongs to: the case its send was made
\* under, or the case whose history brought it.
MessageCase(m) == IF m.send > 0 THEN sends[m.send].case ELSE historyOf

\* No chat request and no load of case details awaits its response.
NothingInFlight ==
    /\ \A k \in 1..Len(sends) : sends[k].pc # "await"
    /\ \A l \in 1..Len(loads) : loads[l].pc # "await"

\* C26: whenever no request is in flight, every message of the transcript
\* belongs to the current case: neither the reply to a message sent under the
\* case selected before nor a history load of that case that resolves late
\* leaves its messages in the transcript of the case selected since.
C26_TranscriptOfCurrentCase ==
    NothingInFlight =>
        \A i \in 1..Len(chatMessages) : MessageCase(chatMessages[i]) = currentCase

\* While no chat request is in flight neither busy flag is set.
BusyCleared ==
    (\A k \in 1..Len(sends) : sends[k].pc # "await") => (~isTyping /\ ~chatIsLoading)

\* The step that settles the request of a send resets isTyping and, the
\* component that sent being still mounted, its isLoading.
SettleStep ==
    \A k \in 1..Len(sends) :
        (sends[k].pc = "await" /\ sends'[k].pc # "await") =>
            /\ ~isTyping'
            /\ sends[k].live => ~chatIsLoading'

\* C30: every send clears its busy flags once its request has settled, with a
\* reply or with a failure: isTyping is reset, and the isLoading of the chat
\* input that sent; isTyping is never left set, nor the input left loading,
\* when no chat request is in flight, also when the case was switched or the
\* chat tab left while the request was pending.
C30_BusyFlagsCleared == []BusyCleared /\ [][SettleStep]_vars

\* A send made under another case than the current one, from a chat tab left
\* since, has failed, and nothing is in flight.
C30_Witness ==
    /\ Len(sends) = 1
    /\ sends[1].pc = "failed"
    /\ ~sends[1].live
    /\ sends[1].case # currentCase
    /\ ~isTyping /\ ~chatIsLoading

\* A step that completes an operation on the session: verifyToken returns to
\* initAuth, or a call of login, register or logout comes to its end.
OperationCompletes ==
    \/ initPc = "verifyFetch" /\ initPc' = "done"
    \/ \E t \in 1..Len(tasks') :
           /\ tasks'[t].kind \in {"login", "register", "logout"}
           /\ tasks'[t].pc = "done"
           /\ t <= Len(tasks) => tasks[t].pc # "done"

PostSent ==
    /\ logoutPosts' = logoutPosts + 1
    /\ \A t \in 1..Len(tasks) : tasks[t].pc = "logoutPost" => tasks'[t] = tasks[t]
    /\ \E t \in 1..Len(tasks') :
           /\ tasks'[t].pc = "logoutPost"
           /\ \/ t > Len(tasks)
              \/ /\ tasks[t].pc = "fetch" /\ tasks'[t].status = 401
                 /\ ~Includes(tasks[t].url, <<"/", "l", "o", "g", "o", "u", "t">>)

\* What a step does with the logout requests: the answer to a logout POST,
\* whatever it is, ends the call that sent it, sends no further POST and starts
\* no call; and a request of the API service to the logout path, answered 401,
\* is returned as it is.
ForcedLogoutStep ==
    /\ logoutPosts' # logoutPosts => PostSent
    /\ \A t \in 1..Len(tasks) :
           /\ (tasks[t].pc = "logoutPost" /\ tasks'[t] # tasks[t]) =>
                  /\ tasks'[t].pc = "done" /\ tasks'[t].post # "pending"
                  /\ tasks[t].kind = "api" => tasks'[t].result = "synthetic401"
                  /\ logoutPosts' = logoutPosts
                  /\ Len(tasks') = Len(tasks)
           /\ (/\ tasks[t].pc = "fetch" /\ tasks'[t].pc # "fetch"
               /\ Includes(tasks[t].url, <<"/", "l", "o", "g", "o", "u", "t">>)) =>
                  /\ logoutPosts' = logoutPosts
                  /\ tasks'[t].pc \in {"done", "threw"}
                  /\ tasks'[t].pc = "done" => tasks'[t].result = "original"

AwaitsLogoutPost(t) ==
    t <= Len(tasks) /\ tasks[t].kind = "api" /\ tasks[t].pc = "logoutPost"

ReturnedSynthetic(t) ==
    t <= Len(tasks) /\ tasks[t].pc = "done" /\ tasks[t].result = "synthetic401"

\* C28: the answer to the logout POST, a 401 included, never starts another
\* logout, and a request whose 401 was intercepted comes, one settled POST
\* later, to return the synthetic 401 to its caller.
C28_ForcedLogoutTerminates ==
    /\ [][ForcedLogoutStep]_vars
    /\ \A t \in 1..MaxTasks : AwaitsLogoutPost(t) ~> ReturnedSynthetic(t)

\* A request has returned the synthetic 401 after its logout POST was itself
\* answered with an error status, and one POST was sent in all.
C28_Witness ==
    \E t \in 1..Len(tasks) :
        /\ ReturnedSynthetic(t) /\ tasks[t].post = "httpError"
        /\ logoutPosts = 1

====
